---------------------------- MODULE Spec2Model ----------------------------
(***************************************************************************)
(* Model of the PDF -> DOCX placeholder pipeline (shami-ah/pdf-data-       *)
(* extractor): the orchestrator (app.py), the PDF page extractor           *)
(* (extract_pdf_data.py), the schema-aware merger (update_docx_with_pdf.py)*)
(* and the DOCX writer (updated_word.py).                                  *)
(*                                                                         *)
(* Text is modelled at character level: a string is a sequence of          *)
(* one-character strings, so that the regular-expression helpers of the    *)
(* source (_smart_space, looks_like_plate, ...) are computed, not assumed. *)
(***************************************************************************)
EXTENDS Integers, Sequences, FiniteSets, TLC

\* ------------------------------------------------------------------------
\* Characters and character classes (Python's re classes on ASCII text)
\* ------------------------------------------------------------------------
UpperSeq == <<"A","B","C","D","E","F","G","H","I","J","K","L","M",
              "N","O","P","Q","R","S","T","U","V","W","X","Y","Z">>
LowerSeq == <<"a","b","c","d","e","f","g","h","i","j","k","l","m",
              "n","o","p","q","r","s","t","u","v","w","x","y","z">>
IsUpper(c) == c \in {UpperSeq[i] : i \in 1..26}
IsLower(c) == c \in {LowerSeq[i] : i \in 1..26}
IsAlpha(c) == IsUpper(c) \/ IsLower(c)
IsDigit(c) == c \in {"0","1","2","3","4","5","6","7","8","9"}
IsSpace(c) == c \in {" ", "\n", "\t"}
\* \w of Python's re
IsWord(c)  == IsAlpha(c) \/ IsDigit(c) \/ c = "_"

\* str.lower() / str.upper() on one character
LowerChar(c) ==
  IF IsUpper(c) THEN LowerSeq[CHOOSE i \in 1..26 : UpperSeq[i] = c] ELSE c
UpperChar(c) ==
  IF IsLower(c) THEN UpperSeq[CHOOSE i \in 1..26 : LowerSeq[i] = c] ELSE c
ToLower(s) == [i \in 1..Len(s) |-> LowerChar(s[i])]
ToUpper(s) == [i \in 1..Len(s) |-> UpperChar(s[i])]

\* ------------------------------------------------------------------------
\* Generic string helpers
\* ------------------------------------------------------------------------
\* sub occurs in s at position i
MatchAt(s, sub, i) ==
  /\ i >= 1
  /\ i + Len(sub) - 1 <= Len(s)
  /\ \A k \in 1..Len(sub) : s[i + k - 1] = sub[k]
\* Python's  sub in s
Contains(s, sub) == \E i \in 1..(Len(s) + 1) : MatchAt(s, sub, i)

RECURSIVE JoinWith(_, _)
\* sep.join(parts)
JoinWith(parts, sep) ==
  IF parts = <<>> THEN <<>>
  ELSE IF Len(parts) = 1 THEN parts[1]
  ELSE parts[1] \o sep \o JoinWith(Tail(parts), sep)

RECURSIVE StripLeft(_)
StripLeft(s) == IF s # <<>> /\ IsSpace(s[1]) THEN StripLeft(Tail(s)) ELSE s
RECURSIVE StripRight(_)
StripRight(s) ==
  IF s # <<>> /\ IsSpace(s[Len(s)]) THEN StripRight(SubSeq(s, 1, Len(s) - 1)) ELSE s
\* str.strip()
Strip(s) == StripRight(StripLeft(s))

RECURSIVE ConcatRange(_, _, _)
\* parts[lo] \o ... \o parts[hi], by halves
ConcatRange(parts, lo, hi) ==
  IF lo > hi THEN <<>>
  ELSE IF lo = hi THEN parts[lo]
  ELSE ConcatRange(parts, lo, (lo + hi) \div 2)
         \o ConcatRange(parts, (lo + hi) \div 2 + 1, hi)
\* the concatenation of a list of lists
ConcatAll(parts) == ConcatRange(parts, 1, Len(parts))

MinOf(S) == CHOOSE m \in S : \A x \in S : m <= x
MaxOf(S) == CHOOSE m \in S : \A x \in S : x <= m
Range(f) == {f[x] : x \in DOMAIN f}

\* re.sub(r"\s+", " ", s): the first character of a run of whitespace
\* becomes a space, the rest of the run goes
CollapseSpaces(s) ==
  ConcatAll([i \in 1..Len(s) |->
               IF IsSpace(s[i])
               THEN IF i > 1 /\ IsSpace(s[i - 1]) THEN <<>> ELSE <<" ">>
               ELSE <<s[i]>>])

\* the string with every character of the set drop removed
SelectChars(s, drop) == SelectSeq(s, LAMBDA c : c \notin drop)

\* the last position of the whitespace-free run that holds position i
TokenEnd(s, i) ==
  CHOOSE e \in i..Len(s) :
    /\ \A k \in i..e : ~IsSpace(s[k])
    /\ (e = Len(s) \/ IsSpace(s[e + 1]))
\* str.split(): the whitespace-separated tokens of s
Tokens(s) ==
  ConcatAll([i \in 1..Len(s) |->
               IF ~IsSpace(s[i]) /\ (i = 1 \/ IsSpace(s[i - 1]))
               THEN <<SubSeq(s, i, TokenEnd(s, i))>>
               ELSE <<>>])

RECURSIVE ReplaceAll(_, _, _)
\* str.replace(old, new), old non-empty: the leftmost occurrence is replaced,
\* then the text behind it
ReplaceAll(s, old, new) ==
  IF ~Contains(s, old) THEN s
  ELSE CHOOSE res \in
         { SubSeq(s, 1, i - 1) \o new
             \o ReplaceAll(SubSeq(s, i + Len(old), Len(s)), old, new) :
           i \in { CHOOSE j \in 1..Len(s) :
                     MatchAt(s, old, j) /\ \A k \in 1..(j - 1) : ~MatchAt(s, old, k) } } : TRUE

\* ------------------------------------------------------------------------
\* _smart_space  (update_docx_with_pdf.py)
\* ------------------------------------------------------------------------
\* the kind of glue point between s[i] and s[i+1], one per re.sub of the source
GlueLowerUpper(s, i) == IsLower(s[i]) /\ IsUpper(s[i + 1])
GlueAlphaDigit(s, i) == IsAlpha(s[i]) /\ IsDigit(s[i + 1])
GlueDigitAlpha(s, i) == IsDigit(s[i]) /\ IsAlpha(s[i + 1])
GlueCapsDigit(s, i)  == i >= 2 /\ IsUpper(s[i - 1]) /\ IsUpper(s[i]) /\ IsDigit(s[i + 1])
Glue(kind, s, i) ==
  CASE kind = "lower_upper" -> GlueLowerUpper(s, i)
    [] kind = "alpha_digit" -> GlueAlphaDigit(s, i)
    [] kind = "digit_alpha" -> GlueDigitAlpha(s, i)
    [] kind = "caps_digit"  -> GlueCapsDigit(s, i)

\* re.sub(r'(X)(Y)', r'\1 \2', s): a space at every glue point of the kind
InsertSpaces(kind, s) ==
  ConcatAll([i \in 1..Len(s) |->
               IF i < Len(s) /\ Glue(kind, s, i) THEN <<s[i], " ">> ELSE <<s[i]>>])

RECURSIVE RunEnd(_, _, _)
\* the last position of the maximal run of characters of class cls starting
\* at i (i - 1 when s[i] is not of the class); cls is "digit", "alpha", "space"
RunEnd(s, i, cls) ==
  IF i <= Len(s) /\ ( \/ (cls = "digit" /\ IsDigit(s[i]))
                      \/ (cls = "alpha" /\ IsAlpha(s[i]))
                      \/ (cls = "space" /\ IsSpace(s[i])) )
  THEN RunEnd(s, i + 1, cls)
  ELSE i - 1

\* \b between positions i-1 and i
WordBoundary(s, i) ==
  LET before == i >= 2 /\ i - 1 <= Len(s) /\ IsWord(s[i - 1])
      after  == i >= 1 /\ i <= Len(s) /\ IsWord(s[i])
  IN before # after

OrdinalSuffixes == { <<"s","t">>, <<"n","d">>, <<"r","d">>, <<"t","h">> }

\* r'\b(\d+)\s*(st|nd|rd|th)\b' matched at i: <<end of digits, start of suffix>>
\* or <<>> when it does not match there
OrdinalAt(s, i) ==
  IF ~(i <= Len(s) /\ IsDigit(s[i]) /\ WordBoundary(s, i)) THEN <<>>
  ELSE LET de == RunEnd(s, i, "digit")
           ss == RunEnd(s, de + 1, "space") + 1
       IN IF /\ ss + 1 <= Len(s)
             /\ <<s[ss], s[ss + 1]>> \in OrdinalSuffixes
             /\ WordBoundary(s, ss + 2)
          THEN <<de, ss>>
          ELSE <<>>

RECURSIVE CompactOrdinalsFrom(_, _)
\* re.sub(r'\b(\d+)\s*(st|nd|rd|th)\b', r'\1\2', s) from position i on: the
\* text up to the next match, the match without its blanks, then the rest
CompactOrdinalsFrom(s, i) ==
  CHOOSE res \in
    { IF hits = {} THEN SubSeq(s, i, Len(s))
      ELSE CHOOSE r \in
             { SubSeq(s, i, m[1]) \o <<s[m[2]], s[m[2] + 1]>>
                 \o CompactOrdinalsFrom(s, m[2] + 2) :
               m \in { OrdinalAt(s, CHOOSE j \in hits : \A k \in hits : j <= k) } } : TRUE :
      hits \in { { j \in i..Len(s) : OrdinalAt(s, j) # <<>> } } } : TRUE
CompactOrdinals(s) == CompactOrdinalsFrom(s, 1)

_smart_space(s) ==
  IF s = <<>> THEN s
  ELSE LET s1 == InsertSpaces("lower_upper", s)
           s2 == InsertSpaces("alpha_digit", s1)
           s3 == InsertSpaces("digit_alpha", s2)
           s4 == InsertSpaces("caps_digit", s3)
           s5 == ReplaceAll(s4, <<"P","O","B","o","x">>, <<"P","O"," ","B","o","x">>)
           s6 == CompactOrdinals(s5)
       IN Strip(CollapseSpaces(s6))

\* _nz: the string itself when it is not blank, else ""
_nz(x) == IF Strip(x) # <<>> THEN x ELSE <<>>

\* ------------------------------------------------------------------------
\* Validators and canonical forms  (update_docx_with_pdf.py)
\* ------------------------------------------------------------------------
\* the number of letters / digits of s
CountAlpha(s) == Cardinality({i \in 1..Len(s) : IsAlpha(s[i])})
CountDigit(s) == Cardinality({i \in 1..Len(s) : IsDigit(s[i])})

\* a plate test that takes 4..8 letters/digits
plate_of_four(s) ==
  IF s = <<>> THEN FALSE
  ELSE LET t == SelectChars(ToUpper(s), {" ", "\n", "\t", "-"})
       IN /\ 4 <= Len(t) /\ Len(t) <= 8
          /\ \A i \in 1..Len(t) : IsUpper(t[i]) \/ IsDigit(t[i])
          /\ CountAlpha(t) >= 2
          /\ CountDigit(t) >= 2

\* looks_like_plate: 5..8 letters/digits once whitespace and hyphens are
\* removed, at least two letters and two digits
looks_like_plate(s) ==
  IF s = <<>> THEN FALSE
  ELSE LET t == SelectChars(ToUpper(s), {" ", "\n", "\t", "-"})
       IN /\ 5 <= Len(t) /\ Len(t) <= 8
          /\ \A i \in 1..Len(t) : IsUpper(t[i]) \/ IsDigit(t[i])
          /\ CountAlpha(t) >= 2
          /\ CountDigit(t) >= 2
          /\ t \notin { <<"E","N","T","R","Y">>, <<"Y","E","S">>, <<"N","O">>,
                        <<"N","/","A">>, <<"N","A">> }

\* _looks_like_manual_value: no run of three or more digits only, and a letter
_looks_like_manual_value(s) ==
  IF s = <<>> THEN FALSE
  ELSE LET t == Strip(s)
       IN IF Len(t) >= 3 /\ \A i \in 1..Len(t) : IsDigit(t[i]) THEN FALSE
          ELSE \E i \in 1..Len(t) : IsAlpha(t[i])

\* r"[A-Za-z]{2,}\s+[A-Za-z&]{2,}" found at letter run ending at e
CompanyTailAt(s, e) ==
  LET ws == RunEnd(s, e + 1, "space")
  IN /\ ws >= e + 1
     /\ ws + 2 <= Len(s)
     /\ \A k \in (ws + 1)..(ws + 2) : IsAlpha(s[k]) \/ s[k] = "&"
\* _looks_like_company
_looks_like_company(s0) ==
  IF s0 = <<>> THEN FALSE
  ELSE LET s == _smart_space(s0)
       IN \E e \in 2..Len(s) :
            IsAlpha(s[e - 1]) /\ IsAlpha(s[e]) /\ CompanyTailAt(s, e)

\* re.sub(r"[^...]+", " ", s) followed by the collapse of whitespace: every
\* character outside keep becomes a space
MapNonMatching(s, keep) ==
  [i \in 1..Len(s) |-> IF s[i] \in keep THEN s[i] ELSE " "]

CanonKeep ==
  {LowerSeq[i] : i \in 1..26} \cup {"0","1","2","3","4","5","6","7","8","9","#"}

\* _canon: lower case, only [a-z0-9#] kept, single spaces
_canon(s) ==
  IF s = <<>> THEN <<>>
  ELSE LET t == ToLower(Strip(CollapseSpaces(s)))
       IN Strip(CollapseSpaces(MapNonMatching(t, CanonKeep)))

\* re.sub(r"[/]+", " / ", s): each run of slashes becomes one spaced slash
SpaceSlashes(s) ==
  ConcatAll([i \in 1..Len(s) |->
               IF s[i] = "/"
               THEN IF i > 1 /\ s[i - 1] = "/" THEN <<>> ELSE <<" ", "/", " ">>
               ELSE <<s[i]>>])

\* _canon_header: as _canon, but "/" is kept and set off by spaces.  (The
\* source first maps en/em dashes to "-", which the next substitution turns
\* into a space like any other character outside [a-z0-9#/ ].)
_canon_header(s) ==
  IF s = <<>> THEN <<>>
  ELSE LET t  == ToLower(Strip(CollapseSpaces(s)))
           t2 == SpaceSlashes(t)
       IN Strip(CollapseSpaces(MapNonMatching(t2, CanonKeep \cup {"/", " "})))

\* ------------------------------------------------------------------------
\* Date and RF tokens  (update_docx_with_pdf.py)
\* ------------------------------------------------------------------------
DateSeps == {".", "/", "-"}

\* one "(?:[./-]\d{1,2})" group starting at i: its last position, or 0.  The
\* digits that follow the separator must be a whole run of one or two.
DateGroupEnd(s, i) ==
  IF i <= Len(s) /\ s[i] \in DateSeps
  THEN LET e == RunEnd(s, i + 1, "digit")
       IN IF e - i \in {1, 2} THEN e ELSE 0
  ELSE 0

\* r"\b\d{1,4}(?:[./-]\d{1,2}){1,2}\b" matched at i: the last position of the
\* match, or 0 when it does not match there
DateTokenEnd(s, i) ==
  IF ~(i <= Len(s) /\ IsDigit(s[i]) /\ WordBoundary(s, i)) THEN 0
  ELSE LET d  == RunEnd(s, i, "digit")
           g1 == IF d - i + 1 <= 4 THEN DateGroupEnd(s, d + 1) ELSE 0
           g2 == IF g1 > 0 THEN DateGroupEnd(s, g1 + 1) ELSE 0
       IN IF g2 > 0 /\ WordBoundary(s, g2 + 1) THEN g2
          ELSE IF g1 > 0 /\ WordBoundary(s, g1 + 1) THEN g1
          ELSE 0

RECURSIVE DateTokensFrom(_, _)
\* re.findall from position i on: the next match, then those behind it
DateTokensFrom(s, i) ==
  CHOOSE res \in
    { IF hits = {} THEN <<>>
      ELSE CHOOSE r \in
             { <<SubSeq(s, j, DateTokenEnd(s, j))>> \o DateTokensFrom(s, DateTokenEnd(s, j) + 1) :
               j \in { CHOOSE j \in hits : \A k \in hits : j <= k } } : TRUE :
      hits \in { { j \in i..Len(s) : DateTokenEnd(s, j) > 0 } } } : TRUE

\* extract_date_tokens
extract_date_tokens(s) ==
  IF s = <<>> THEN <<>> ELSE DateTokensFrom(_smart_space(s), 1)

\* is_dateish
is_dateish(s) ==
  IF s = <<>> THEN FALSE
  ELSE LET t == _smart_space(s) IN \E i \in 1..Len(t) : DateTokenEnd(t, i) > 0

\* r"\bRF\s*\d+\b" (ignoring case) matched at i: last position, or 0
RfEnd(s, i) ==
  IF /\ i + 1 <= Len(s)
     /\ WordBoundary(s, i)
     /\ LowerChar(s[i]) = "r" /\ LowerChar(s[i + 1]) = "f"
  THEN LET ws == RunEnd(s, i + 2, "space")
           de == RunEnd(s, ws + 1, "digit")
       IN IF de > ws /\ WordBoundary(s, de + 1) THEN de ELSE 0
  ELSE 0

\* re.search(r"\bRF\s*\d+\b", s, re.I): the matched text, or <<>>
RfSearch(s) ==
  IF \E i \in 1..Len(s) : RfEnd(s, i) > 0
  THEN LET i == CHOOSE j \in 1..Len(s) :
                  RfEnd(s, j) > 0 /\ \A k \in 1..(j - 1) : RfEnd(s, k) = 0
       IN SubSeq(s, i, RfEnd(s, i))
  ELSE <<>>

\* ========================================================================
\* State
\* ========================================================================
VARIABLES
  \* --- orchestrator (app.py) ---
  deploy,      \* which script of each name sits next to app.py
  ppc,         \* position of process_files
  running,     \* the stage whose child process is running, or "none"
  started,     \* stages started by this call, in order
  exits,       \* return codes of the stages that have exited, in order
  raised_in,   \* stages whose script hit an exception in this call
  files,       \* files present in the call's temporary directory
  returned,    \* process_files returned final_docx_path
  requests,    \* calls of process_files begun so far
  \* --- PDF page extractor (extract_pdf_data.py) ---
  pages,            \* what the PDF backend yields for each page
  page_num,         \* the page the loop of extract_everything is at
  epc,              \* position inside the loop body
  all_text_blocks,  \* text blocks collected so far
  all_tables,       \* tables collected so far
  result,           \* extracted_data of the returned result
  \* --- DOCX writer (space-pdf/updated_word.py) ---
  template,    \* the template document
  merged_in,   \* the merged map given to run()
  wdoc,        \* the document run() works on and saves
  wpc,         \* "template", "written" (run() done), "extracted"
  red_found,   \* labels for which the extractor finds red text in the output
  \* --- merger (space-pdf/space-pdf/update_docx_with_pdf.py) ---
  docx_json,       \* the DOCX map the merger is called with
  pdf_json,        \* the PDF data of the latest call
  _vehicle_by_reg, \* self._vehicle_by_reg, in insertion order
  extraction,      \* what the latest call extracted from the PDF data
  merged_data,     \* the map the latest call returned
  first_pdf,       \* the PDF data of the first call
  first_merged,    \* the map the first call returned
  calls,           \* calls of merge_pdf_to_docx that returned
  mg_error,        \* the exception the latest call raised, "" when it returned
  \* --- red-text extractor (extract_red_text.py) ---
  red_doc,         \* the tables of the document: [heading, rows]
  table_count,     \* tables handled so far
  matched,         \* how each table was taken: [multi, schema]
  red_out,         \* out: schema name -> label -> texts
  red_pc           \* position of extract_red_text

pipeVars == <<deploy, ppc, running, started, exits, raised_in, files, returned, requests>>
extVars == <<pages, page_num, epc, all_text_blocks, all_tables, result>>
wrVars == <<template, merged_in, wdoc, wpc, red_found>>
mgVars == <<docx_json, pdf_json, _vehicle_by_reg, extraction, merged_data,
            first_pdf, first_merged, calls, mg_error>>
rtVars == <<red_doc, table_count, matched, red_out, red_pc>>
vars == <<pipeVars, extVars, wrVars, mgVars, rtVars>>

\* the components a specification does not exercise stay as constructed
PipeIdle ==
  /\ deploy = [merge |-> "nhvas", write |-> "cli"]
  /\ ppc = "pdf" /\ running = "none" /\ started = <<>> /\ exits = <<>>
  /\ raised_in = {} /\ files = {} /\ returned = FALSE /\ requests = 1
ExtIdle ==
  /\ pages = <<>> /\ page_num = 1 /\ epc = "text"
  /\ all_text_blocks = <<>> /\ all_tables = <<>> /\ result = <<>>
WrIdle ==
  /\ template = [paragraphs |-> <<>>, tables |-> <<>>]
  /\ merged_in = <<>>
  /\ wdoc = [paragraphs |-> <<>>, tables |-> <<>>]
  /\ wpc = "template" /\ red_found = {}
MgIdle ==
  /\ docx_json = <<>> /\ pdf_json = <<>> /\ _vehicle_by_reg = <<>>
  /\ extraction = <<>> /\ merged_data = <<>>
  /\ first_pdf = <<>> /\ first_merged = <<>> /\ calls = 0 /\ mg_error = ""
RtIdle ==
  /\ red_doc = <<>> /\ table_count = 0 /\ matched = <<>>
  /\ red_out = <<>> /\ red_pc = "tables"
\* what the steps of one component leave alone
PipeFrame == UNCHANGED <<extVars, wrVars, mgVars, rtVars>>
ExtFrame == UNCHANGED <<pipeVars, wrVars, mgVars, rtVars>>
WrFrame == UNCHANGED <<pipeVars, extVars, mgVars, rtVars>>
MgFrame == UNCHANGED <<pipeVars, extVars, wrVars, rtVars>>
RtFrame == UNCHANGED <<pipeVars, extVars, wrVars, mgVars>>

\* ========================================================================
\* PDF page extractor  (extract_pdf_data.py)
\* ========================================================================
MaxPages == 2

RECURSIVE CollapseBlanksFrom(_, _)
\* re.sub(r'[ \t]+', ' ', s)
CollapseBlanksFrom(s, i) ==
  IF i > Len(s) THEN <<>>
  ELSE IF s[i] \in {" ", "\t"}
       THEN IF i > 1 /\ s[i - 1] \in {" ", "\t"} THEN CollapseBlanksFrom(s, i + 1)
            ELSE <<" ">> \o CollapseBlanksFrom(s, i + 1)
       ELSE <<s[i]>> \o CollapseBlanksFrom(s, i + 1)

RECURSIVE SquashBlankLinesFrom(_, _)
\* re.sub(r'\n\s*\n', '\n', s): a newline, the whitespace after it and the
\* last newline of that whitespace become one newline
SquashBlankLinesFrom(s, i) ==
  IF i > Len(s) THEN <<>>
  ELSE IF s[i] = "\n"
       THEN LET e  == RunEnd(s, i + 1, "space")
                nl == {j \in (i + 1)..e : s[j] = "\n"}
            IN IF nl # {}
               THEN LET last == CHOOSE j \in nl : \A k \in nl : k <= j
                    IN <<"\n">> \o SquashBlankLinesFrom(s, last + 1)
               ELSE <<"\n">> \o SquashBlankLinesFrom(s, i + 1)
       ELSE <<s[i]>> \o SquashBlankLinesFrom(s, i + 1)

\* _extract_page_text on what page.extract_text() does: the cleaned text, or
\* none when the call raises or yields nothing; nothing escapes the handler
PageTextEscapes(t) == [crash |-> t.kind = "raise", none |-> TRUE, text |-> <<>>]
_extract_page_text(t) ==
  IF t.kind = "text" /\ t.val # <<>>
  THEN [crash |-> FALSE, none |-> FALSE,
        text |-> SquashBlankLinesFrom(CollapseBlanksFrom(Strip(t.val), 1), 1)]
  ELSE [crash |-> FALSE, none |-> TRUE, text |-> <<>>]

\* one cell of _clean_table_improved
CleanCell(c) == IF c.none THEN <<>> ELSE CollapseSpaces(Strip(c.s))
CleanRow(row) == [i \in 1..Len(row) |-> CleanCell(row[i])]
RowHasText(row) == \E i \in 1..Len(row) : Strip(row[i]) # <<>>

RECURSIVE CleanRows(_)
CleanRows(rows) ==
  IF rows = <<>> THEN <<>>
  ELSE LET r == CleanRow(rows[1])
       IN (IF RowHasText(r) THEN <<r>> ELSE <<>>) \o CleanRows(Tail(rows))

\* _clean_table_improved
_clean_table_improved(table) == CleanRows(table)

RECURSIVE PageTablesFrom(_, _, _)
\* the loop of _extract_page_tables over raw_tables, from index i
PageTablesFrom(raw, i, pnum) ==
  IF i > Len(raw) THEN <<>>
  ELSE LET cleaned == _clean_table_improved(raw[i])
       IN (IF cleaned # <<>>
           THEN << [page |-> pnum, table_index |-> i,
                    headers |-> cleaned[1], data |-> Tail(cleaned),
                    raw_data |-> cleaned,
                    row_count |-> Len(cleaned) - 1,
                    column_count |-> Len(cleaned[1])] >>
           ELSE <<>>) \o PageTablesFrom(raw, i + 1, pnum)

\* _extract_page_tables on what page.extract_tables() does
_extract_page_tables(t, pnum) ==
  IF t.kind = "tables" THEN PageTablesFrom(t.val, 1, pnum) ELSE <<>>

\* the codes of a standard, and the words that make a table a compliance table
ComplianceCodes == { <<"V">>, <<"N","C">>, <<"S","F","I">>, <<"N","A","P">>, <<"N","A">> }
ComplianceKeywords == { <<"c","o","m","p","l","i","a","n","c","e">>, <<"s","t","a","n","d","a","r","d">>, <<"r","e","q","u","i","r","e","m","e","n","t">> }

\* any(keyword in ' '.join(headers) ...) over the lower-cased headers
IsComplianceTable(table) ==
  \E headers \in { JoinWith([k \in 1..Len(table.headers) |-> ToLower(table.headers[k])],
                              <<" ">>) } :
    \E keyword \in ComplianceKeywords : Contains(headers, keyword)

\* the rows of a table that name a standard and one of the codes
StandardRows(table) ==
  SelectSeq(table.data,
            LAMBDA row : /\ Len(row) >= 2
                         /\ MatchAt(Strip(row[1]), <<"S","t","d">>, 1)
                         /\ Strip(row[2]) \in ComplianceCodes)

\* _extract_compliance_summary, the standards_compliance part: standard ->
\* code over the compliance tables, a later row of a standard replacing an
\* earlier one
_extract_compliance_summary(tables) ==
  CHOOSE res \in
    { [ standards_compliance |->
          [ standard \in { Strip(rows[k][1]) : k \in 1..Len(rows) } |->
              Strip(rows[CHOOSE k \in 1..Len(rows) :
                           /\ Strip(rows[k][1]) = standard
                           /\ \A j \in (k + 1)..Len(rows) : Strip(rows[j][1]) # standard][2]) ] ] :
      rows \in { ConcatAll([t \in 1..Len(tables) |->
                    IF IsComplianceTable(tables[t]) THEN StandardRows(tables[t])
                    ELSE <<>>]) } } : TRUE

\* what the PDF backend can do for a page's text and for its tables
TextOutcomes ==
  { [kind |-> "raise", val |-> <<>>],
    [kind |-> "none", val |-> <<>>],
    [kind |-> "text", val |-> <<" ", "\n">>],
    [kind |-> "text", val |-> <<"a", " ", " ", "b", "\n", " ", "\n", "c", " ">>] }
CellA == [none |-> FALSE, s |-> <<" ", "x", "\n", "y">>]
CellNone == [none |-> TRUE, s |-> <<>>]
CellBlank == [none |-> FALSE, s |-> <<" ">>]
TextCell(s) == [none |-> FALSE, s |-> s]
\* Scenario D: a 'Std' column and a 'Code' column
TableScenarioD ==
  << << TextCell(<<"S","t","d">>), TextCell(<<"C","o","d","e">>) >>,
     << TextCell(<<"S","t","d"," ","1","."," ","R","e","s","p","o","n","s","i","b","i","l","i","t","i","e","s">>), TextCell(<<"V">>) >>,
     << TextCell(<<"S","t","d"," ","9","."," ","B","o","g","u","s">>), TextCell(<<"Z">>) >> >>
\* a table with 'Standard' and 'Compliance Code' columns
TableStandards ==
  << << TextCell(<<"S","t","a","n","d","a","r","d">>), TextCell(<<"C","o","m","p","l","i","a","n","c","e"," ","C","o","d","e">>) >>,
     << TextCell(<<"S","t","d"," ","2","."," ","R","e","c","o","r","d","s">>), TextCell(<<"N","C">>) >>,
     << TextCell(<<"S","t","d"," ","9","."," ","B","o","g","u","s">>), TextCell(<<"Z">>) >>,
     << TextCell(<<"S","t","d"," ","2","."," ","R","e","c","o","r","d","s">>), TextCell(<<" ","S","F","I">>) >>,
     << TextCell(<<"S","t","d"," ","3","."," ","T","r","a","i","n","i","n","g">>) >>,
     << TextCell(<<"s","t","d"," ","4">>), TextCell(<<"V">>) >> >>
TableOutcomes ==
  { [kind |-> "raise", val |-> <<>>],
    [kind |-> "tables", val |-> <<>>],
    [kind |-> "tables", val |-> << <<<<CellNone, CellBlank>>>>,
                                   <<<<CellA, CellNone>>, <<CellNone, CellNone>>, <<CellBlank, CellA>>>> >>],
    [kind |-> "tables", val |-> << TableScenarioD, TableStandards >>] }
PageMenu == [text : TextOutcomes, tables : TableOutcomes]

RECURSIVE SeqsUpTo(_, _)
\* the sequences over S of length at most n
SeqsUpTo(S, n) ==
  IF n = 0 THEN {<<>>}
  ELSE LET shorter == SeqsUpTo(S, n - 1)
       IN shorter \cup {Append(q, x) : q \in {r \in shorter : Len(r) = n - 1}, x \in S}

ExtInit ==
  /\ pages \in SeqsUpTo(PageMenu, MaxPages) \ {<<>>}
  /\ page_num = 1
  /\ epc = "text"
  /\ all_text_blocks = <<>>
  /\ all_tables = <<>>
  /\ result = <<>>
  /\ PipeIdle /\ WrIdle /\ MgIdle /\ RtIdle

\* page_text = self._extract_page_text(page); if page_text: append the block
ExtractPageText ==
  /\ epc = "text"
  /\ page_num <= Len(pages)
  /\ LET o == _extract_page_text(pages[page_num].text)
     IN IF o.crash
        THEN /\ epc' = "crashed"
             /\ UNCHANGED all_text_blocks
        ELSE /\ epc' = "tables"
             /\ all_text_blocks' =
                  IF ~o.none /\ o.text # <<>>
                  THEN Append(all_text_blocks,
                              [page |-> page_num, text |-> o.text,
                               word_count |-> Len(Tokens(o.text))])
                  ELSE all_text_blocks
  /\ UNCHANGED <<pages, page_num, all_tables, result>> /\ ExtFrame

\* tables = self._extract_page_tables(page, page_num); all_tables.extend(tables)
ExtractPageTables ==
  /\ epc = "tables"
  /\ all_tables' = all_tables \o _extract_page_tables(pages[page_num].tables, page_num)
  /\ page_num' = page_num + 1
  /\ epc' = IF page_num = Len(pages) THEN "finish" ELSE "text"
  /\ UNCHANGED <<pages, all_text_blocks, result>> /\ ExtFrame

\* after the loop: the collected blocks and tables go into the result, and
\* the compliance summary is made of the tables
FinishExtraction ==
  /\ epc = "finish"
  /\ result' = [all_text_content |-> all_text_blocks, all_tables |-> all_tables,
                 compliance_summary |-> _extract_compliance_summary(all_tables)]
  /\ epc' = "done"
  /\ UNCHANGED <<pages, page_num, all_text_blocks, all_tables>> /\ ExtFrame

ExtNext == ExtractPageText \/ ExtractPageTables \/ FinishExtraction

SpecExtract == ExtInit /\ [][ExtNext]_vars

\* ------------------------------------------------------------------------
\* C6: whatever pages fail in text or table extraction, extract_everything
\* completes; the text blocks and tables of every page that did not fail are
\* in the result in page order, and a page contributes nothing for the part
\* that failed.
\* ------------------------------------------------------------------------
\* the tables of the result that come from page p, in result order
RECURSIVE TablesOfPage(_, _)
TablesOfPage(ts, p) ==
  IF ts = <<>> THEN <<>>
  ELSE (IF ts[1].page = p THEN <<ts[1]>> ELSE <<>>) \o TablesOfPage(Tail(ts), p)

C6_PageFailuresTolerated ==
  /\ epc # "crashed"
  /\ epc = "done" =>
       LET blocks == result.all_text_content
           tabs   == result.all_tables
       IN /\ \A i \in 1..Len(blocks), j \in 1..Len(blocks) :
               i < j => blocks[i].page < blocks[j].page
          /\ \A i \in 1..Len(tabs), j \in 1..Len(tabs) :
               i < j => tabs[i].page <= tabs[j].page
          /\ \A p \in 1..Len(pages) :
               LET t == pages[p].text
                   good == t.kind = "text" /\ Strip(t.val) # <<>>
               IN /\ good => \E i \in 1..Len(blocks) :
                               blocks[i].page = p /\ blocks[i].text # <<>>
                  /\ t.kind = "raise" => \A i \in 1..Len(blocks) : blocks[i].page # p
          /\ \A p \in 1..Len(pages) :
               LET t == pages[p].tables
               IN /\ t.kind = "raise" => TablesOfPage(tabs, p) = <<>>
                  /\ t.kind = "tables" =>
                       TablesOfPage(tabs, p) = PageTablesFrom(t.val, 1, p)

\* a two-page document is done: page 1 failed in both parts, page 2 in none
C6_Witness ==
  /\ epc = "done"
  /\ Len(pages) = 2
  /\ pages[1].text.kind = "raise" /\ pages[1].tables.kind = "raise"
  /\ Len(result.all_text_content) = 1 /\ result.all_text_content[1].page = 2
  /\ Len(result.all_tables) = 1 /\ result.all_tables[1].page = 2

\* C12: Scenario D.  When the extraction is done, a table of the result with
\* the header row ['Std', 'Code'] and the row ['Std 1. Responsibilities', 'V']
\* has given standards_compliance['Std 1. Responsibilities'] = 'V', and its
\* row ['Std 9. Bogus', 'Z'] has given no entry.
C12_ScenarioD ==
  epc = "done" =>
    \A t \in 1..Len(result.all_tables) :
      result.all_tables[t].headers = << <<"S","t","d">>, <<"C","o","d","e">> >> =>
        \E codes \in {result.compliance_summary.standards_compliance} :
          \A r \in 1..Len(result.all_tables[t].data) :
            /\ result.all_tables[t].data[r] = << <<"S","t","d"," ","1","."," ","R","e","s","p","o","n","s","i","b","i","l","i","t","i","e","s">>, <<"V">> >>
                 => /\ <<"S","t","d"," ","1","."," ","R","e","s","p","o","n","s","i","b","i","l","i","t","i","e","s">> \in DOMAIN codes
                    /\ codes[<<"S","t","d"," ","1","."," ","R","e","s","p","o","n","s","i","b","i","l","i","t","i","e","s">>] = <<"V">>
            /\ result.all_tables[t].data[r] = << <<"S","t","d"," ","9","."," ","B","o","g","u","s">>, <<"Z">> >>
                 => <<"S","t","d"," ","9","."," ","B","o","g","u","s">> \notin DOMAIN codes

\* ========================================================================
\* DOCX writer  (space-pdf/updated_word.py) and the red-text extractor's
\* colour test (extract_red_text.py)
\*
\* A document is [paragraphs, tables]; a table is a sequence of rows, a row
\* a sequence of cells, a cell a sequence of paragraphs, a paragraph a
\* sequence of runs; a run is [text, rgb] with rgb = <<>> for "no colour".
\* ========================================================================
BLACK == <<0, 0, 0>>
RED == <<255, 0, 0>>

\* is_red_run (writer): the run colour is exactly FF0000
is_red_run(run) == run.rgb # <<>> /\ run.rgb = RED

\* is_red_font (extractor): a range of reds
is_red_font(run) ==
  /\ run.rgb # <<>>
  /\ run.rgb[1] > 150 /\ run.rgb[2] < 100 /\ run.rgb[3] < 100
  /\ run.rgb[1] - run.rgb[2] > 30 /\ run.rgb[1] - run.rgb[3] > 30


para_text(para) == ConcatAll([i \in 1..Len(para) |-> para[i].text])
cell_text(cell) == JoinWith([i \in 1..Len(cell) |-> para_text(cell[i])], <<"\n">>)

\* canon_label: lower case, only letters, digits and single spaces
canon_label(s) ==
  LET t == ToLower(Strip(CollapseSpaces(s)))
  IN Strip(CollapseSpaces(MapNonMatching(t, (CanonKeep \ {"#"}) \cup {" "})))

\* canon (writer): lower case, characters outside [a-z0-9/#()+,.\- ] deleted
canon(s) ==
  LET t == ToLower(Strip(CollapseSpaces(s)))
  IN SelectChars(t, {t[i] : i \in 1..Len(t)}
                      \ (CanonKeep \cup {"/", "(", ")", "+", ",", ".", "-", " "}))

\* nz (writer)
nz(x) == Strip(x)

RECURSIVE NonBlank(_)
NonBlank(xs) ==
  IF xs = <<>> THEN <<>>
  ELSE (IF nz(xs[1]) # <<>> THEN <<xs[1]>> ELSE <<>>) \o NonBlank(Tail(xs))
\* join_value on a list: the non-blank items, one per line
join_value(value) == JoinWith(NonBlank(value), <<"\n">>)

\* _set_text_and_black
_set_text_and_black(run, new_text) == [text |-> new_text, rgb |-> BLACK]

ParaHasRed(para) == \E i \in 1..Len(para) : is_red_run(para[i])

\* replace_red_in_paragraph: the first red run takes the value in black, the
\* other red runs are emptied; a paragraph without red run is left alone
replace_red_in_paragraph(para, new_text) ==
  IF ~ParaHasRed(para) THEN para
  ELSE LET first == CHOOSE i \in 1..Len(para) :
                      is_red_run(para[i]) /\ \A j \in 1..(i - 1) : ~is_red_run(para[j])
       IN [i \in 1..Len(para) |->
             IF i = first THEN _set_text_and_black(para[i], new_text)
             ELSE IF is_red_run(para[i]) THEN [para[i] EXCEPT !.text = <<>>]
             ELSE para[i]]

\* _set_cell_text_black: every run of the cell is emptied and a new black
\* run with the text is added to the first paragraph
_set_cell_text_black(cell, text) ==
  LET blank == [i \in 1..Len(cell) |->
                  [j \in 1..Len(cell[i]) |-> [cell[i][j] EXCEPT !.text = <<>>]]]
  IN [blank EXCEPT ![1] = Append(blank[1], [text |-> text, rgb |-> BLACK])]

\* replace_red_in_cell: every paragraph with a red run is rewritten; when no
\* paragraph has one, the whole cell is overwritten
replace_red_in_cell(cell, new_text) ==
  IF \E i \in 1..Len(cell) : ParaHasRed(cell[i])
  THEN [i \in 1..Len(cell) |-> replace_red_in_paragraph(cell[i], new_text)]
  ELSE _set_cell_text_black(cell, new_text)

\* the cells of a table, as <<row, column>>
CellsOf(table) ==
  UNION {{<<r, c>> : c \in 1..Len(table[r])} : r \in 1..Len(table)}
RowMajorLess(a, b) == a[1] < b[1] \/ (a[1] = b[1] /\ a[2] < b[2])
\* the first element of a set of cells in row-major order, <<>> if empty
FirstCell(S) ==
  IF S = {} THEN <<>> ELSE CHOOSE a \in S : \A b \in S : a = b \/ RowMajorLess(a, b)

\* the canonical texts of the cells of a table, as a function of <<row, col>>
CanonCells(table) ==
  [rc \in CellsOf(table) |-> canon_label(cell_text(table[rc[1]][rc[2]]))]

\* find_label_cell_in_table: the first cell whose text is the label, else
\* the first cell whose text contains it; <<>> when there is none
find_label_cell_in_table(table, label) ==
  CHOOSE res \in
    { IF \E rc \in DOMAIN texts : texts[rc] = target
      THEN FirstCell({rc \in DOMAIN texts : texts[rc] = target})
      ELSE FirstCell({rc \in DOMAIN texts : target # <<>> /\ Contains(texts[rc], target)}) :
        texts \in {CanonCells(table)}, target \in {canon_label(label)} } : TRUE

\* find_label_cell: <<table, row, column>> in the first table that has the
\* label, or <<>>
find_label_cell(doc, label) ==
  CHOOSE res \in
    { IF \A t \in 1..Len(found) : found[t] = <<>> THEN <<>>
      ELSE LET t == CHOOSE x \in 1..Len(found) :
                      found[x] # <<>> /\ \A y \in 1..(x - 1) : found[y] = <<>>
           IN <<t>> \o found[t] :
        found \in {[t \in 1..Len(doc.tables) |->
                      find_label_cell_in_table(doc.tables[t], label)]} } : TRUE

\* get_adjacent_value_cell: the cell to the right, else the one below, else
\* the cell itself
get_adjacent_value_cell(table, r, c) ==
  IF c + 1 <= Len(table[1]) THEN <<r, c + 1>>
  ELSE IF r + 1 <= Len(table) THEN <<r + 1, c>>
  ELSE <<r, c>>

\* the value cell update_label_value_in_tables aims at: <<table, row, col>>
TargetCell(doc, label) ==
  CHOOSE res \in
    { IF tup = <<>> THEN <<>>
      ELSE <<tup[1]>> \o get_adjacent_value_cell(doc.tables[tup[1]], tup[2], tup[3]) :
        tup \in {find_label_cell(doc, label)} } : TRUE

\* update_label_value_in_tables: [ok, doc]
update_label_value_in_tables(doc, label, value) ==
  CHOOSE res \in
    { IF tc = <<>> THEN [ok |-> FALSE, doc |-> doc]
      ELSE [ok |-> TRUE,
            doc |-> [doc EXCEPT !.tables[tc[1]][tc[2]][tc[3]] =
                       replace_red_in_cell(@, join_value(value))]] :
        tc \in {TargetCell(doc, label)} } : TRUE

\* iter_paragraphs: the body paragraphs, then the paragraphs of every table
\* cell, as addresses <<table, row, column, index>> (table 0 is the body)
CellAddrs(doc, t, r, c) == [i \in 1..Len(doc.tables[t][r][c]) |-> <<t, r, c, i>>]
RowAddrs(doc, t, r) == ConcatAll([c \in 1..Len(doc.tables[t][r]) |-> CellAddrs(doc, t, r, c)])
TableAddrs(doc, t) == ConcatAll([r \in 1..Len(doc.tables[t]) |-> RowAddrs(doc, t, r)])
iter_paragraphs(doc) ==
  [i \in 1..Len(doc.paragraphs) |-> <<0, 0, 0, i>>]
    \o ConcatAll([t \in 1..Len(doc.tables) |-> TableAddrs(doc, t)])
ParaAt(doc, a) ==
  IF a[1] = 0 THEN doc.paragraphs[a[4]] ELSE doc.tables[a[1]][a[2]][a[3]][a[4]]
SetPara(doc, a, para) ==
  IF a[1] = 0 THEN [doc EXCEPT !.paragraphs[a[4]] = para]
  ELSE [doc EXCEPT !.tables[a[1]][a[2]][a[3]][a[4]] = para]

\* find_heading_paragraph: the position in allp (= iter_paragraphs) of the
\* first paragraph whose text starts with the heading, else of the first
\* that contains it, or 0
FirstWithKey(texts, key) ==
  IF \E k \in 1..Len(texts) : MatchAt(texts[k], key, 1)
  THEN MinOf({k \in 1..Len(texts) : MatchAt(texts[k], key, 1)})
  ELSE IF \E k \in 1..Len(texts) : Contains(texts[k], key)
  THEN MinOf({k \in 1..Len(texts) : Contains(texts[k], key)})
  ELSE 0
find_heading_paragraph(doc, allp, heading_text) ==
  CHOOSE res \in
    { FirstWithKey(texts, key) :
        key \in {canon(heading_text)},
        texts \in {[k \in 1..Len(allp) |-> canon(para_text(ParaAt(doc, allp[k])))]} } : TRUE

\* update_heading_followed_red: the first paragraph with a red run among
\* the max_scan paragraphs after the heading is rewritten
update_heading_followed_red(doc, heading, value, max_scan) ==
  CHOOSE res \in
    { LET reds == {k \in (idx + 1)..(idx + max_scan) :
                     k <= Len(allp) /\ ParaHasRed(ParaAt(doc, allp[k]))}
      IN IF idx = 0 \/ reds = {} THEN doc
         ELSE LET k == CHOOSE x \in reds : \A y \in reds : x <= y
              IN SetPara(doc, allp[k],
                         replace_red_in_paragraph(ParaAt(doc, allp[k]), join_value(value))) :
        allp \in {iter_paragraphs(doc)},
        idx \in {find_heading_paragraph(doc, iter_paragraphs(doc), heading)} } : TRUE

\* ------------------------------------------------------------------------
\* The paragraph values, the operator declaration and the summary tables
\* ------------------------------------------------------------------------
\* data.get(name, {}): the items of the section of that name, <<>> if absent
SectionOf(data, name) ==
  IF \E k \in 1..Len(data) : data[k].name = name
  THEN data[CHOOSE k \in 1..Len(data) : data[k].name = name].items
  ELSE <<>>

\* arrays.get(label, [])
ArrayOf(arrays, label) ==
  IF \E i \in 1..Len(arrays) : arrays[i].label = label
  THEN arrays[CHOOSE i \in 1..Len(arrays) : arrays[i].label = label].val
  ELSE <<>>

\* find_heading_index_from_end: the position in allp of the last paragraph
\* whose text contains the heading, or 0
find_heading_index_from_end(doc, allp, heading) ==
  CHOOSE res \in
    { IF \A k \in 1..Len(allp) : ~Contains(canon(para_text(ParaAt(doc, allp[k]))), key) THEN 0
      ELSE MaxOf({k \in 1..Len(allp) : Contains(canon(para_text(ParaAt(doc, allp[k]))), key)}) :
      key \in {canon(heading)} } : TRUE

\* set_date_by_heading_from_end: the first paragraph with a red run among
\* the max_scan paragraphs after the last occurrence of the heading is
\* rewritten
set_date_by_heading_from_end(doc, heading, date_text, max_scan) ==
  IF date_text = <<>> THEN doc
  ELSE CHOOSE res \in
         { LET reds == {k \in (idx + 1)..(idx + max_scan) :
                          k <= Len(allp) /\ ParaHasRed(ParaAt(doc, allp[k]))}
           IN IF idx = 0 \/ reds = {} THEN doc
              ELSE SetPara(doc, allp[MinOf(reds)],
                           replace_red_in_paragraph(ParaAt(doc, allp[MinOf(reds)]), date_text)) :
           allp \in {iter_paragraphs(doc)},
           idx \in {find_heading_index_from_end(doc, iter_paragraphs(doc), heading)} } : TRUE

\* set_date_by_paragraph_from_end: the same search and the same write, with
\* the text of the paragraph as the key
set_date_by_paragraph_from_end(doc, paragraph_text, date_text, max_scan) ==
  set_date_by_heading_from_end(doc, paragraph_text, date_text, max_scan)

\* _clear_para_and_write_black: every run is emptied and a black run with
\* the text is added
_clear_para_and_write_black(para, text) ==
  Append([i \in 1..Len(para) |-> [para[i] EXCEPT !.text = <<>>]],
         [text |-> text, rgb |-> BLACK])

RECURSIVE Layer3From(_, _, _, _, _)
\* the loop of set_layer3_name_after_management_heading from paragraph i on:
\* at a paragraph that reads mid whose previous non-empty paragraph is an
\* allowed title, the next non-empty paragraph is overwritten
Layer3From(doc, i, mid, allowed_prev, name) ==
  CHOOSE res \in
    { IF i > Len(allp) THEN doc
      ELSE CHOOSE out \in
             { IF /\ canon(texts[i]) = mid
                  /\ prev # {} /\ canon(texts[MaxOf(prev)]) \in allowed_prev
                  /\ next # {}
               THEN Layer3From(
                      SetPara(doc, allp[MinOf(next)],
                              _clear_para_and_write_black(ParaAt(doc, allp[MinOf(next)]), name)),
                      i + 1, mid, allowed_prev, name)
               ELSE Layer3From(doc, i + 1, mid, allowed_prev, name) :
               prev \in {{j \in 1..(i - 1) : nz(texts[j]) # <<>>}},
               next \in {{k \in (i + 1)..Len(allp) : nz(texts[k]) # <<>>}} } : TRUE :
      allp \in {iter_paragraphs(doc)},
      texts \in {[k \in 1..Len(iter_paragraphs(doc)) |->
                   para_text(ParaAt(doc, iter_paragraphs(doc)[k]))]} } : TRUE

set_layer3_name_after_management_heading(doc, mid_heading, allowed_prev_titles, name) ==
  IF name = <<>> THEN doc
  ELSE Layer3From(doc, 1, canon(mid_heading), {canon(t) : t \in allowed_prev_titles}, name)

MaintenanceHead == <<"M","A","I","N","T","E","N","A","N","C","E"," ","M","A","N","A","G","E","M","E","N","T">>
MassHead == <<"M","A","S","S"," ","M","A","N","A","G","E","M","E","N","T">>
FatigueHead == <<"F","A","T","I","G","U","E"," ","M","A","N","A","G","E","M","E","N","T">>
aud_head == <<"N","H","V","A","S"," ","A","P","P","R","O","V","E","D"," ","A","U","D","I","T","O","R"," ","D","E","C","L","A","R","A","T","I","O","N">>
ack_head ==
  <<"I"," ","h","e","r","e","b","y"," ","a","c","k","n","o","w","l","e","d","g","e"," ","a","n","d"," ","a","g","r","e","e"," ","w","i","t","h"," ","t","h","e"," ","f","i","n","d","i","n","g","s"," ","d","e","t","a","i","l","e","d"," ","i","n"," ","t","h","i","s"," ","N","H","V","A","S"," ","A","u","d","i","t"," ","S","u","m","m","a","r","y"," ","R","e","p","o","r","t","."," ">>
  \o <<"I"," ","h","a","v","e"," ","r","e","a","d"," ","a","n","d"," ","u","n","d","e","r","s","t","a","n","d"," ","t","h","e"," ","c","o","n","d","i","t","i","o","n","s"," ","a","p","p","l","i","c","a","b","l","e"," ","t","o"," ","t","h","e"," ","S","c","h","e","m","e",","," ","i","n","c","l","u","d","i","n","g"," ","t","h","e"," ","N","H","V","A","S"," ","B","u","s","i","n","e","s","s"," ","R","u","l","e","s"," ","a","n","d"," ","S","t","a","n","d","a","r","d","s",".">>
VehicleRecordsTitle == <<"V","e","h","i","c","l","e"," ","R","e","g","i","s","t","r","a","t","i","o","n"," ","N","u","m","b","e","r","s"," ","o","f"," ","R","e","c","o","r","d","s"," ","E","x","a","m","i","n","e","d">>
DriverRecordsTitle == <<"D","r","i","v","e","r"," ","/"," ","S","c","h","e","d","u","l","e","r"," ","R","e","c","o","r","d","s"," ","E","x","a","m","i","n","e","d">>

\* the writes of the paragraphs block of run(), in the order of the code
ParagraphSteps ==
  << [kind |-> "red", key |-> MaintenanceHead, prev |-> <<>>],
     [kind |-> "red", key |-> MassHead, prev |-> <<>>],
     [kind |-> "red", key |-> FatigueHead, prev |-> <<>>],
     [kind |-> "date_heading", key |-> aud_head, prev |-> <<>>],
     [kind |-> "date_paragraph", key |-> ack_head, prev |-> <<>>],
     [kind |-> "layer3", key |-> MaintenanceHead, prev |-> VehicleRecordsTitle],
     [kind |-> "layer3", key |-> MassHead, prev |-> VehicleRecordsTitle],
     [kind |-> "layer3", key |-> FatigueHead, prev |-> DriverRecordsTitle] >>

\* one write of the block: nothing happens when the map has no text for it
ParagraphStep(doc, paras, step) ==
  CHOOSE res \in
    { IF value = <<>> THEN doc
      ELSE CASE step.kind = "red" -> update_heading_followed_red(doc, step.key, <<value>>, 6)
             [] step.kind = "date_heading" -> set_date_by_heading_from_end(doc, step.key, value, 40)
             [] step.kind = "date_paragraph" -> set_date_by_paragraph_from_end(doc, step.key, value, 40)
             [] step.kind = "layer3" ->
                  set_layer3_name_after_management_heading(doc, step.key, {step.prev}, value) :
      value \in {join_value(ArrayOf(paras, step.key))} } : TRUE

RECURSIVE ParagraphsBlock(_, _, _)
\* the paragraphs block of run(), from step k on
ParagraphsBlock(doc, paras, k) ==
  IF k > Len(ParagraphSteps) THEN doc
  ELSE ParagraphsBlock(ParagraphStep(doc, paras, ParagraphSteps[k]), paras, k + 1)

\* the sections flatten_simple_sections leaves out
skip_sections ==
  { "Vehicle Registration Numbers Maintenance", "Vehicle Registration Numbers Mass",
    "Driver / Scheduler Records Examined", "paragraphs",
    "Attendance List (Names and Position Titles)",
    "Nature of the Operators Business (Summary)",
    "Maintenance Management Summary", "Mass Management Summary",
    "Fatigue Management Summary" }

RECURSIVE flatten_simple_sections(_)
\* flatten_simple_sections: the (section, label, value) entries of the simple
\* sections in map order; data is a sequence of [name, title, items]
flatten_simple_sections(data) ==
  IF data = <<>> THEN <<>>
  ELSE (IF data[1].name \in skip_sections THEN <<>>
        ELSE [i \in 1..Len(data[1].items) |->
                [sec |-> data[1].title, label |-> data[1].items[i].label,
                 val |-> data[1].items[i].val]])
       \o flatten_simple_sections(Tail(data))

AcnLabel ==
  <<"A","u","s","t","r","a","l","i","a","n"," ","C","o","m","p","a","n","y"," ",
    "N","u","m","b","e","r">>

\* one round of the loop of step 1 of run(): the entry is written next to
\* its label cell, or else into the first red paragraph after the section
\* heading, and then the paragraphs block, which stands in the body of the
\* loop, is run; the ACN entry is skipped by continue
RunSimpleEntry(doc, e, paras) ==
  IF canon_label(e.label) = canon_label(AcnLabel) THEN doc
  ELSE CHOOSE res \in
         { ParagraphsBlock(IF u.ok THEN u.doc
                           ELSE update_heading_followed_red(doc, e.sec, e.val, 12),
                           paras, 1) :
             u \in {update_label_value_in_tables(doc, e.label, e.val)} } : TRUE

RECURSIVE RunSimple(_, _, _)
\* steps 1 and 2 of run(): the loop over the simple entries, in map order
RunSimple(doc, simple, paras) ==
  IF simple = <<>> THEN doc
  ELSE CHOOSE res \in
         { RunSimple(d, Tail(simple), paras) : d \in {RunSimpleEntry(doc, simple[1], paras)} } : TRUE

PrintNameText == <<"P","r","i","n","t"," ","N","a","m","e">>
AuditorRegText ==
  <<"N","H","V","R"," ","o","r"," ","E","x","e","m","p","l","a","r"," ",
    "G","l","o","b","a","l"," ","A","u","d","i","t","o","r"," ",
    "R","e","g","i","s","t","r","a","t","i","o","n"," ","N","u","m","b","e","r">>
CellHasRed(cell) == \E i \in 1..Len(cell) : ParaHasRed(cell[i])

\* ensure_auditor_decl_headers: in the first table whose top-left cell reads
\* "Print Name" the two header cells are forced to their label texts
ensure_auditor_decl_headers(doc) ==
  LET hits == {t \in 1..Len(doc.tables) :
                 /\ Len(doc.tables[t]) >= 2
                 /\ Len(doc.tables[t][1]) >= 2
                 /\ canon_label(cell_text(doc.tables[t][1][1])) = canon_label(PrintNameText)}
  IN IF hits = {} THEN doc
     ELSE LET t == CHOOSE x \in hits : \A y \in hits : x <= y
              left == doc.tables[t][1][1]
              right == doc.tables[t][1][2]
              left2 == IF CellHasRed(left) THEN _set_cell_text_black(left, PrintNameText)
                       ELSE left
              right2 == IF canon_label(cell_text(right)) # canon_label(AuditorRegText)
                           \/ CellHasRed(right)
                        THEN _set_cell_text_black(right, AuditorRegText)
                        ELSE right
          IN [doc EXCEPT !.tables[t][1][1] = left2, !.tables[t][1][2] = right2]

\* ------------------------------------------------------------------------
\* Repeating-record tables: maintenance vehicles, mass vehicles, drivers
\* ------------------------------------------------------------------------
\* vals[i] if i < len(vals) else ""  (i counts from 1 here)
ItemOr(vals, i) == IF i <= Len(vals) THEN vals[i] ELSE <<>>

\* " ".join(cell_text(r.cells[j]) for r in rows if j < len(r.cells))
ColumnText(rows, j) ==
  JoinWith([r \in 1..Len(rows) |-> cell_text(rows[r][j])], <<" ">>)

\* table_header_text(table, 3): the canonical text of the cells of the first
\* three rows
table_header_text(table) ==
  canon(JoinWith(ConcatAll([r \in 1..MinOf({3, Len(table)}) |->
                              [c \in 1..Len(table[r]) |-> cell_text(table[r][c])]]),
                 <<" ">>))

\* first_col(*needles): the first column whose text holds every needle,
\* counted from 1; 0 is None
first_col(col_texts, needles) ==
  IF \E j \in 1..Len(col_texts) : \A n \in needles : Contains(col_texts[j], n)
  THEN CHOOSE j \in 1..Len(col_texts) :
         /\ \A n \in needles : Contains(col_texts[j], n)
         /\ \A i \in 1..(j - 1) : \E n \in needles : ~Contains(col_texts[i], n)
  ELSE 0

\* a or b for two results of first_col: the first column of the table
\* (index 0 in the source) is falsy like None
OrCol(a, b) == IF a > 1 THEN a ELSE b

\* {k: v for k, v in idx.items() if v is not None}
NotNone(idx) == [k \in {x \in DOMAIN idx : idx[x] # 0} |-> idx[k]]

\* find_vehicle_table(doc, "maintenance"): the table with the most rows (the
\* first of them) among those whose header text has "registration",
\* "maintenance" and "fault" and has not "suspension"; 0 is None
find_vehicle_table(doc) ==
  CHOOSE res \in
    { IF candidates = {} THEN 0
      ELSE CHOOSE t \in candidates :
             \A u \in candidates :
               \/ Len(doc.tables[u]) < Len(doc.tables[t])
               \/ (Len(doc.tables[u]) = Len(doc.tables[t]) /\ t <= u) :
      candidates \in
        { {t \in 1..Len(doc.tables) :
             \E htxt \in {table_header_text(doc.tables[t])} :
               /\ Contains(htxt, <<"r","e","g","i","s","t","r","a","t","i","o","n">>)
               /\ Contains(htxt, <<"m","a","i","n","t","e","n","a","n","c","e">>)
               /\ Contains(htxt, <<"f","a","u","l","t">>)
               /\ ~Contains(htxt, <<"s","u","s","p","e","n","s","i","o","n">>)} } } : TRUE

\* map_cols(table, "maintenance")
map_cols(table) ==
  CHOOSE res \in
    { NotNone([ reg |-> first_col(col_texts, {<<"r","e","g","i","s","t","r","a","t","i","o","n">>}),
                rw |-> first_col(col_texts, {<<"r","o","a","d","w","o","r","t","h","i","n","e","s","s">>}),
                mr |-> first_col(col_texts, {<<"m","a","i","n","t","e","n","a","n","c","e">>, <<"r","e","c","o","r","d","s">>}),
                daily |-> first_col(col_texts, {<<"d","a","i","l","y">>, <<"c","h","e","c","k">>}),
                fr |-> first_col(col_texts, {<<"f","a","u","l","t">>, <<"r","e","c","o","r","d","i","n","g">>}),
                rep |-> first_col(col_texts, {<<"f","a","u","l","t">>, <<"r","e","p","a","i","r">>}) ]) :
      col_texts \in { [j \in 1..Len(table[1]) |->
                         canon(ColumnText(SubSeq(table, 1, MinOf({2, Len(table)})), j))] } } : TRUE

\* table.add_row(): a row of empty cells, one per column of the table; an
\* empty cell has one paragraph without run
add_row(table) == Append(table, [c \in 1..Len(table[1]) |-> << <<>> >>])

\* clear_data_rows_keep_headers: the rows after the first header_rows rows
\* are removed
clear_data_rows_keep_headers(table, header_rows) ==
  IF Len(table) > header_rows THEN SubSeq(table, 1, header_rows) ELSE table

RECURSIVE AddRowsUpTo(_, _)
\* while len(table.rows) < total: table.add_row()
AddRowsUpTo(table, total) ==
  IF Len(table) < total THEN AddRowsUpTo(add_row(table), total) ELSE table

\* ensure_rows: rows are added to reach need_rows + 1 rows
ensure_rows(table, need_rows) == AddRowsUpTo(table, need_rows + 1)

RECURSIVE PutCells(_, _, _)
\* the writes into one row, in order: every put is [col, text]
PutCells(row, puts, k) ==
  IF k > Len(puts) THEN row
  ELSE PutCells([row EXCEPT ![puts[k].col] = replace_red_in_cell(@, puts[k].text)], puts, k + 1)

\* put(col_key, vals) of fill_vehicle_table: nothing is written when the
\* column is not mapped or the array is too short
PutIfPresent(colmap, col_key, vals, i) ==
  IF col_key \notin DOMAIN colmap \/ i > Len(vals) THEN <<>>
  ELSE << [col |-> colmap[col_key], text |-> nz(vals[i])] >>

\* fill_vehicle_table(table, "maintenance", arrays)
fill_vehicle_table(table, arrays) ==
  CHOOSE res \in
    { IF "reg" \notin DOMAIN colmap THEN table
      ELSE CHOOSE filled \in
        { [r \in 1..Len(sized) |->
             IF r < 2 \/ r > n + 1 THEN sized[r]
             ELSE PutCells(sized[r],
                    << [col |-> colmap["reg"], text |-> nz(regs[r - 1])] >>
                    \o PutIfPresent(colmap, "rw", ArrayOf(arrays, <<"R","o","a","d","w","o","r","t","h","i","n","e","s","s"," ","C","e","r","t","i","f","i","c","a","t","e","s">>), r - 1)
                    \o PutIfPresent(colmap, "mr", ArrayOf(arrays, <<"M","a","i","n","t","e","n","a","n","c","e"," ","R","e","c","o","r","d","s">>), r - 1)
                    \o PutIfPresent(colmap, "daily", ArrayOf(arrays, <<"D","a","i","l","y"," ","C","h","e","c","k","s">>), r - 1)
                    \o PutIfPresent(colmap, "fr", ArrayOf(arrays, <<"F","a","u","l","t"," ","R","e","c","o","r","d","i","n","g","/"," ","R","e","p","o","r","t","i","n","g">>), r - 1)
                    \o PutIfPresent(colmap, "rep", ArrayOf(arrays, <<"F","a","u","l","t"," ","R","e","p","a","i","r">>), r - 1),
                    1)] :
          sized \in { ensure_rows(clear_data_rows_keep_headers(table, 1), n) } } : TRUE :
      colmap \in { map_cols(table) },
      regs \in { ArrayOf(arrays, <<"R","e","g","i","s","t","r","a","t","i","o","n"," ","N","u","m","b","e","r">>) },
      n \in { Len(ArrayOf(arrays, <<"R","e","g","i","s","t","r","a","t","i","o","n"," ","N","u","m","b","e","r">>)) } } : TRUE

\* _header_col_texts(table, 5): the canonical text of every column over the
\* first five rows
_header_col_texts(table) ==
  [j \in 1..Len(table[1]) |-> canon(ColumnText(SubSeq(table, 1, MinOf({5, Len(table)})), j))]

\* find_mass_vehicle_numbers_table: hits counts the column kinds found, the
\* score (in hundredths) adds a half for a numbering column and a hundredth
\* per row; the first table of the best score with four hits or more and
\* without "details" in its headers; 0 is None
MassScore(table) ==
  CHOOSE res \in
    { [ hits |-> Cardinality({k \in 1..Len(kinds) :
                    \E j \in 1..Len(cols) : \A n \in kinds[k] : Contains(cols[j], n)}),
        details |-> Contains(JoinWith(cols, <<" ">>), <<"d","e","t","a","i","l","s">>),
        bonus |-> IF \E j \in 1..Len(cols) : cols[j] = <<"n","o">> \/ MatchAt(cols[j], <<"n","o"," ">>, 1)
                  THEN 50 ELSE 0,
        rows |-> Len(table) ] :
      cols \in { _header_col_texts(table) },
      kinds \in { << {<<"r","e","g","i","s","t","r","a","t","i","o","n">>, <<"n","u","m","b","e","r">>}, {<<"w","e","i","g","h","t">>, <<"v","e","r","i","f","i","c","a","t","i","o","n">>},
                     {<<"r","f","s">>, <<"c","e","r","t">>}, {<<"s","u","s","p","e","n","s","i","o","n">>, <<"m","a","i","n","t","e","n","a","n","c","e">>},
                     {<<"t","r","i","p">>, <<"r","e","c","o","r","d">>}, {<<"f","a","u","l","t">>, <<"s","u","s","p","e","n","s","i","o","n">>} >> } } : TRUE

find_mass_vehicle_numbers_table(doc) ==
  CHOOSE res \in
    { IF good = {} THEN 0
      ELSE CHOOSE t \in good :
             \A u \in good :
               \/ total[u] < total[t]
               \/ (total[u] = total[t] /\ t <= u) :
      good \in { {t \in 1..Len(doc.tables) :
                    \E s \in {MassScore(doc.tables[t])} : ~s.details /\ s.hits >= 4} },
      total \in { [t \in 1..Len(doc.tables) |->
                     CHOOSE x \in { 100 * s.hits + s.bonus + s.rows :
                                    s \in {MassScore(doc.tables[t])} } : TRUE] } } : TRUE

\* map_cols_mass_strict
map_cols_mass_strict(table) ==
  CHOOSE res \in
    { NotNone([ no |-> first_col(cols, {<<"n","o">>}),
                reg |-> OrCol(first_col(cols, {<<"r","e","g","i","s","t","r","a","t","i","o","n">>, <<"n","u","m","b","e","r">>}),
                              first_col(cols, {<<"r","e","g","i","s","t","r","a","t","i","o","n">>})),
                wv |-> first_col(cols, {<<"w","e","i","g","h","t">>, <<"v","e","r","i","f","i","c","a","t","i","o","n">>}),
                rfs |-> OrCol(first_col(cols, {<<"r","f","s">>, <<"c","e","r","t">>}),
                              first_col(cols, {<<"r","f","s">>, <<"c","e","r","t","i","f","i","c","a","t","i","o","n">>})),
                susp |-> first_col(cols, {<<"s","u","s","p","e","n","s","i","o","n">>, <<"m","a","i","n","t","e","n","a","n","c","e">>}),
                trip |-> first_col(cols, {<<"t","r","i","p">>, <<"r","e","c","o","r","d">>}),
                frs |-> OrCol(first_col(cols, {<<"f","a","u","l","t">>, <<"s","u","s","p","e","n","s","i","o","n">>}),
                              first_col(cols, {<<"f","a","u","l","t">>, <<"r","e","p","o","r","t","i","n","g">>, <<"s","u","s","p","e","n","s","i","o","n">>})) ]) :
      cols \in { _header_col_texts(table) } } : TRUE

\* re.match(r"^\d+\.?$", first) on the stripped text of a first cell
NumberedCell(first) ==
  \E d \in 1..Len(first) :
    /\ \A i \in 1..d : IsDigit(first[i])
    /\ \/ Len(first) = d
       \/ (Len(first) = d + 1 /\ first[d + 1] = ".")

\* count_header_rows(table, 6): the number of rows before the first row,
\* among the first six, whose first cell is a record number; 1 when there
\* is no such row
count_header_rows(table) ==
  CHOOSE res \in
    { IF numbered = {} THEN 1 ELSE MinOf(numbered) - 1 :
      numbered \in { {r \in 1..MinOf({6, Len(table)}) :
                        NumberedCell(Strip(cell_text(table[r][1])))} } } : TRUE

\* put(row, key, arr_key, i) of fill_mass_vehicle_table_preserve_headers:
\* "" is written when the array is too short
PutOrBlank(colmap, key, vals, i) ==
  IF key \notin DOMAIN colmap THEN <<>>
  ELSE << [col |-> colmap[key], text |-> IF i <= Len(vals) THEN nz(vals[i]) ELSE <<>>] >>

\* fill_mass_vehicle_table_preserve_headers
fill_mass_vehicle_table_preserve_headers(table, arrays) ==
  CHOOSE res \in
    { IF "reg" \notin DOMAIN colmap THEN table
      ELSE CHOOSE filled \in
        { [r \in 1..Len(sized) |->
             IF r <= hdr_rows \/ r > hdr_rows + n THEN sized[r]
             ELSE PutCells(sized[r],
                    << [col |-> colmap["reg"], text |-> nz(regs[r - hdr_rows])] >>
                    \o PutOrBlank(colmap, "wv", ArrayOf(arrays, <<"W","e","i","g","h","t"," ","V","e","r","i","f","i","c","a","t","i","o","n"," ","R","e","c","o","r","d","s">>), r - hdr_rows)
                    \o PutOrBlank(colmap, "rfs", ArrayOf(arrays, <<"R","F","S"," ","S","u","s","p","e","n","s","i","o","n"," ","C","e","r","t","i","f","i","c","a","t","i","o","n"," ","#">>), r - hdr_rows)
                    \o PutOrBlank(colmap, "susp", ArrayOf(arrays, <<"S","u","s","p","e","n","s","i","o","n"," ","S","y","s","t","e","m"," ","M","a","i","n","t","e","n","a","n","c","e">>), r - hdr_rows)
                    \o PutOrBlank(colmap, "trip", ArrayOf(arrays, <<"T","r","i","p"," ","R","e","c","o","r","d","s">>), r - hdr_rows)
                    \o PutOrBlank(colmap, "frs", ArrayOf(arrays, <<"F","a","u","l","t"," ","R","e","c","o","r","d","i","n","g","/"," ","R","e","p","o","r","t","i","n","g"," ","o","n"," ","S","u","s","p","e","n","s","i","o","n"," ","S","y","s","t","e","m">>), r - hdr_rows),
                    1)] :
          sized \in { AddRowsUpTo(clear_data_rows_keep_headers(table, hdr_rows), hdr_rows + n) } } : TRUE :
      colmap \in { map_cols_mass_strict(table) },
      hdr_rows \in { count_header_rows(table) },
      regs \in { ArrayOf(arrays, <<"R","e","g","i","s","t","r","a","t","i","o","n"," ","N","u","m","b","e","r">>) },
      n \in { Len(ArrayOf(arrays, <<"R","e","g","i","s","t","r","a","t","i","o","n"," ","N","u","m","b","e","r">>)) } } : TRUE

\* find_driver_table: the first table whose header text has
\* "driver / scheduler" and "fit for duty" or "work diary"; 0 is None
find_driver_table(doc) ==
  CHOOSE res \in
    { IF hits = {} THEN 0 ELSE MinOf(hits) :
      hits \in { {t \in 1..Len(doc.tables) :
                    \E h \in {table_header_text(doc.tables[t])} :
                      /\ Contains(h, <<"d","r","i","v","e","r"," ","/"," ","s","c","h","e","d","u","l","e","r">>)
                      /\ Contains(h, <<"f","i","t"," ","f","o","r"," ","d","u","t","y">>) \/ Contains(h, <<"w","o","r","k"," ","d","i","a","r","y">>)} } } : TRUE

\* map_driver_cols
map_driver_cols(table) ==
  CHOOSE res \in
    { NotNone([ name |-> first_col(col_texts, {<<"d","r","i","v","e","r">>, <<"n","a","m","e">>}),
                roster |-> first_col(col_texts, {<<"r","o","s","t","e","r">>, <<"s","a","f","e">>}),
                fit |-> first_col(col_texts, {<<"f","i","t"," ","f","o","r"," ","d","u","t","y">>}),
                wd |-> OrCol(first_col(col_texts, {<<"w","o","r","k"," ","d","i","a","r","y">>}),
                             first_col(col_texts, {<<"e","l","e","c","t","r","o","n","i","c"," ","w","o","r","k"," ","d","i","a","r","y">>})) ]) :
      col_texts \in { [j \in 1..Len(table[1]) |->
                         canon(ColumnText(SubSeq(table, 1, MinOf({2, Len(table)})), j))] } } : TRUE

\* fill_driver_table
fill_driver_table(table, arrays) ==
  CHOOSE res \in
    { IF DOMAIN colmap = {} THEN table
      ELSE CHOOSE filled \in
        { [r \in 1..Len(sized) |->
             IF r < 2 \/ r > n + 1 THEN sized[r]
             ELSE PutCells(sized[r],
                    (IF "name" \in DOMAIN colmap /\ \E i \in 1..Len(names) : Strip(names[i]) # <<>>
                     THEN << [col |-> colmap["name"], text |-> ItemOr(names, r - 1)] >> ELSE <<>>)
                    \o (IF "roster" \in DOMAIN colmap
                        THEN << [col |-> colmap["roster"], text |-> ItemOr(rosters, r - 1)] >> ELSE <<>>)
                    \o (IF "fit" \in DOMAIN colmap
                        THEN << [col |-> colmap["fit"], text |-> ItemOr(fit, r - 1)] >> ELSE <<>>)
                    \o (IF "wd" \in DOMAIN colmap
                        THEN << [col |-> colmap["wd"], text |-> ItemOr(wd, r - 1)] >> ELSE <<>>),
                    1)] :
          sized \in { ensure_rows(clear_data_rows_keep_headers(table, 1), n) } } : TRUE :
      colmap \in { map_driver_cols(table) },
      names \in { ArrayOf(arrays, <<"D","r","i","v","e","r"," ","/"," ","S","c","h","e","d","u","l","e","r"," ","N","a","m","e">>) },
      rosters \in { ArrayOf(arrays, <<"R","o","s","t","e","r"," ","/"," ","S","c","h","e","d","u","l","e"," ","/"," ","S","a","f","e"," ","D","r","i","v","i","n","g"," ","P","l","a","n"," ","(","D","a","t","e"," ","R","a","n","g","e",")">>) },
      fit \in { ArrayOf(arrays, <<"F","i","t"," ","f","o","r"," ","D","u","t","y"," ","S","t","a","t","e","m","e","n","t"," ","C","o","m","p","l","e","t","e","d"," ","(","Y","e","s","/","N","o",")">>) },
      wd \in { ArrayOf(arrays, <<"W","o","r","k"," ","D","i","a","r","y"," ","P","a","g","e","s"," ","(","P","a","g","e"," ","N","u","m","b","e","r","s",")"," ","E","l","e","c","t","r","o","n","i","c"," ","W","o","r","k"," ","D","i","a","r","y"," ","R","e","c","o","r","d","s"," ","(","D","a","t","e"," ","R","a","n","g","e",")">>) },
      n \in { MaxOf({ Len(ArrayOf(arrays, <<"D","r","i","v","e","r"," ","/"," ","S","c","h","e","d","u","l","e","r"," ","N","a","m","e">>)),
                      Len(ArrayOf(arrays, <<"R","o","s","t","e","r"," ","/"," ","S","c","h","e","d","u","l","e"," ","/"," ","S","a","f","e"," ","D","r","i","v","i","n","g"," ","P","l","a","n"," ","(","D","a","t","e"," ","R","a","n","g","e",")">>)),
                      Len(ArrayOf(arrays, <<"F","i","t"," ","f","o","r"," ","D","u","t","y"," ","S","t","a","t","e","m","e","n","t"," ","C","o","m","p","l","e","t","e","d"," ","(","Y","e","s","/","N","o",")">>)),
                      Len(ArrayOf(arrays, <<"W","o","r","k"," ","D","i","a","r","y"," ","P","a","g","e","s"," ","(","P","a","g","e"," ","N","u","m","b","e","r","s",")"," ","E","l","e","c","t","r","o","n","i","c"," ","W","o","r","k"," ","D","i","a","r","y"," ","R","e","c","o","r","d","s"," ","(","D","a","t","e"," ","R","a","n","g","e",")">>)) }) } } : TRUE

\* steps 4 and 5 of run(): a table is filled when it is found and its
\* section of the map is not empty
FillStep(doc, t, arrays, Fill(_, _)) ==
  IF arrays = <<>> \/ t = 0 THEN doc
  ELSE [doc EXCEPT !.tables[t] = Fill(@, arrays)]

FillTables(data, doc) ==
  CHOOSE res \in
    { FillStep(d2, IF drivers = <<>> THEN 0 ELSE find_driver_table(d2), drivers, fill_driver_table) :
      drivers \in { SectionOf(data, "Driver / Scheduler Records Examined") },
      d2 \in { CHOOSE x \in
                 { FillStep(d1, IF mass = <<>> THEN 0 ELSE find_mass_vehicle_numbers_table(d1),
                            mass, fill_mass_vehicle_table_preserve_headers) :
                   mass \in { SectionOf(data, "Vehicle Registration Numbers Mass") },
                   d1 \in { CHOOSE y \in
                              { FillStep(doc, IF maint = <<>> THEN 0 ELSE find_vehicle_table(doc),
                                         maint, fill_vehicle_table) :
                                maint \in { SectionOf(data, "Vehicle Registration Numbers Maintenance") } } :
                              TRUE } } : TRUE } } : TRUE

\* step 6 of run(): the date of the audit declaration goes after its heading
AuditDeclarationStep(data, doc) ==
  CHOOSE res \in
    { IF value = <<>> THEN doc
      ELSE update_heading_followed_red(doc, <<"A","u","d","i","t"," ","w","a","s"," ","c","o","n","d","u","c","t","e","d"," ","o","n">>, value, 12) :
      value \in {ArrayOf(SectionOf(data, "Audit Declaration dates"), <<"A","u","d","i","t"," ","w","a","s"," ","c","o","n","d","u","c","t","e","d"," ","o","n">>)} } : TRUE

PositionTitleText == <<"P","o","s","i","t","i","o","n"," ","T","i","t","l","e">>

\* _find_table_with_headers: the first table whose first row holds every
\* header; 0 is None
_find_table_with_headers(doc, must_have) ==
  CHOOSE res \in
    { IF hits = {} THEN 0 ELSE MinOf(hits) :
      hits \in {{t \in 1..Len(doc.tables) :
                   /\ doc.tables[t] # <<>>
                   /\ \E head \in {canon(JoinWith([c \in 1..Len(doc.tables[t][1]) |->
                                                     cell_text(doc.tables[t][1][c])], <<" ">>))} :
                        \A x \in must_have : Contains(head, canon_label(x))}} } : TRUE

\* fill_operator_declaration: the two cells of the second row are
\* overwritten where they hold a red run
fill_operator_declaration(doc, print_name, position_title) ==
  CHOOSE res \in
    { IF t = 0 THEN doc
      ELSE IF Len(doc.tables[t]) < 2 \/ Len(doc.tables[t][1]) < 2 THEN doc
      ELSE [doc EXCEPT
              !.tables[t][2][1] = IF CellHasRed(@) THEN _set_cell_text_black(@, print_name) ELSE @,
              !.tables[t][2][2] = IF CellHasRed(@) THEN _set_cell_text_black(@, position_title) ELSE @] :
      t \in {_find_table_with_headers(doc, {PrintNameText, PositionTitleText})} } : TRUE

\* step 7 of run(), without the repair of the auditor headers
OperatorDeclarationStep(data, doc) ==
  CHOOSE res \in
    { IF op_decl = <<>> THEN doc
      ELSE fill_operator_declaration(doc, join_value(ArrayOf(op_decl, PrintNameText)),
                                     join_value(ArrayOf(op_decl, PositionTitleText))) :
      op_decl \in {SectionOf(data, "Operator Declaration")} } : TRUE

\* re.match(r"(std\s+\d+)", t).group(1), or <<>> when t does not start so
StdPrefix(t) ==
  IF /\ MatchAt(t, <<"s","t","d">>, 1)
     /\ RunEnd(t, 4, "space") >= 4
     /\ RunEnd(t, RunEnd(t, 4, "space") + 1, "digit") > RunEnd(t, 4, "space")
  THEN SubSeq(t, 1, RunEnd(t, RunEnd(t, 4, "space") + 1, "digit"))
  ELSE <<>>

\* _std_key
_std_key(s) ==
  CHOOSE res \in
    { IF StdPrefix(t) # <<>> THEN StdPrefix(t) ELSE t : t \in {canon_label(s)} } : TRUE

RECURSIVE DesiredTexts(_, _, _)
\* desired = { _std_key(k): join_value(v) }: a key that comes again keeps its
\* place and takes the later text
DesiredTexts(section_dict, k, desired) ==
  IF k > Len(section_dict) THEN desired
  ELSE CHOOSE res \in
         { DesiredTexts(section_dict, k + 1,
             IF \E i \in 1..Len(desired) : desired[i].key = key
             THEN [i \in 1..Len(desired) |->
                     IF desired[i].key = key THEN [key |-> key, text |-> text] ELSE desired[i]]
             ELSE Append(desired, [key |-> key, text |-> text])) :
           key \in {_std_key(section_dict[k].label)},
           text \in {join_value(section_dict[k].val)} } : TRUE

\* _looks_like_summary_table: [label_col, details_col], or <<>> for None
_looks_like_summary_table(table) ==
  IF table = <<>> \/ Len(table[1]) < 2 THEN <<>>
  ELSE CHOOSE res \in
         { IF details = {} THEN <<>>
           ELSE [label_col |-> IF labels # {} THEN MinOf(labels)
                               ELSE IF MinOf(details) # 1 THEN 1 ELSE 2,
                 details_col |-> MinOf(details)] :
           details \in {{j \in 1..Len(table[1]) :
                           Contains(canon(cell_text(table[1][j])), <<"d","e","t","a","i","l">>)}},
           labels \in {{j \in 1..Len(table[1]) :
                          \E k \in {<<"m","a","i","n","t","e","n","a","n","c","e"," ","m","a","n","a","g","e","m","e","n","t">>, <<"m","a","s","s"," ","m","a","n","a","g","e","m","e","n","t">>,
                                    <<"f","a","t","i","g","u","e"," ","m","a","n","a","g","e","m","e","n","t">>} :
                            Contains(canon(cell_text(table[1][j])), k)}} } : TRUE

\* table_header_text(table, up_to_rows)
table_header_text_rows(table, up_to_rows) ==
  canon(JoinWith(ConcatAll([r \in 1..MinOf({up_to_rows, Len(table)}) |->
                              [c \in 1..Len(table[r]) |-> cell_text(table[r][c])]]),
                 <<" ">>))

\* the text for a row key: desired.get(key), and when that is empty the text
\* of the first key of desired that starts with the "std N" of the row key
CandidateText(desired, key) ==
  CHOOSE res \in
    { IF exact # {} /\ desired[MinOf(exact)].text # <<>>
      THEN desired[MinOf(exact)].text
      ELSE IF StdPrefix(key) # <<>> /\ starts # {} THEN desired[MinOf(starts)].text
      ELSE <<>> :
      exact \in {{i \in 1..Len(desired) : desired[i].key = key}},
      starts \in {{i \in 1..Len(desired) : MatchAt(desired[i].key, StdPrefix(key), 1)}} } : TRUE

\* the body rows of one summary table of the section
SummaryRowsWritten(table, cols, desired) ==
  [i \in 1..Len(table) |->
     IF i = 1 THEN table[i]
     ELSE CHOOSE res \in
            { IF cand = <<>> THEN table[i]
              ELSE [table[i] EXCEPT ![cols.details_col] = _set_cell_text_black(@, cand)] :
              cand \in {CandidateText(desired, _std_key(cell_text(table[i][cols.label_col])))} } : TRUE]

\* overwrite_summary_details_cells
overwrite_summary_details_cells(doc, section_name, section_dict) ==
  CHOOSE res \in
    { [doc EXCEPT !.tables =
         [t \in 1..Len(doc.tables) |->
            CHOOSE tbl \in
              { IF cols # <<>> /\ Contains(table_header_text_rows(doc.tables[t], 2), wanted_prefix)
                THEN SummaryRowsWritten(doc.tables[t], cols, desired)
                ELSE doc.tables[t] :
                cols \in {_looks_like_summary_table(doc.tables[t])} } : TRUE]] :
      desired \in {DesiredTexts(section_dict, 1, <<>>)},
      wanted_prefix \in {canon_label(Tokens(section_name)[1])} } : TRUE

\* step 10 of run(): the three summary sections, each when the map has it
SummarySectionNames ==
  << [name |-> "Maintenance Management Summary", title |-> <<"M","a","i","n","t","e","n","a","n","c","e"," ","M","a","n","a","g","e","m","e","n","t"," ","S","u","m","m","a","r","y">>],
     [name |-> "Mass Management Summary", title |-> <<"M","a","s","s"," ","M","a","n","a","g","e","m","e","n","t"," ","S","u","m","m","a","r","y">>],
     [name |-> "Fatigue Management Summary", title |-> <<"F","a","t","i","g","u","e"," ","M","a","n","a","g","e","m","e","n","t"," ","S","u","m","m","a","r","y">>] >>

RECURSIVE SummaryStep(_, _, _)
SummaryStep(data, doc, k) ==
  IF k > Len(SummarySectionNames) THEN doc
  ELSE SummaryStep(data,
         IF SectionOf(data, SummarySectionNames[k].name) = <<>> THEN doc
         ELSE overwrite_summary_details_cells(doc, SummarySectionNames[k].title,
                                              SectionOf(data, SummarySectionNames[k].name)),
         k + 1)

\* run() up to the summary tables.  The steps for the ACN digits, the
\* attendance list and the business summary are each guarded by their
\* section being present and non-empty in the map, and are left out.
BeforeSummaries(data, doc) ==
  CHOOSE res \in
    { ensure_auditor_decl_headers(d7) :
        d7 \in { OperatorDeclarationStep(data, d6) :
          d6 \in { AuditDeclarationStep(data, d5) :
            d5 \in { FillTables(data, d2) :
              d2 \in {RunSimple(doc, flatten_simple_sections(data),
                                SectionOf(data, "paragraphs"))} } } } } : TRUE

\* run(): the document after step 10
WriterOutput(data, doc) == SummaryStep(data, BeforeSummaries(data, doc), 1)

\* ------------------------------------------------------------------------
\* Red-text extractor on a table already matched to a left-oriented schema
\* (extract_red_text.py, extract_table_data, generic branch)
\* ------------------------------------------------------------------------
\* normalize_text
normalize_text(text) == CollapseSpaces(Strip(text))

RECURSIVE DropGroups(_, _, _, _)
\* re.sub(r"\([^)]*\)", "", s) for open = "(", close = ")"
DropGroups(s, i, open, close) ==
  IF i > Len(s) THEN <<>>
  ELSE IF s[i] = open /\ \E j \in (i + 1)..Len(s) : s[j] = close
       THEN LET j == CHOOSE x \in (i + 1)..Len(s) :
                       s[x] = close /\ \A y \in (i + 1)..(x - 1) : s[y] # close
            IN DropGroups(s, j + 1, open, close)
       ELSE <<s[i]>> \o DropGroups(s, i + 1, open, close)

\* normalize_header_label
normalize_header_label(s) ==
  LET s1 == CollapseSpaces(Strip(s))
      s2 == DropGroups(s1, 1, "(", ")")
      s3 == DropGroups(s2, 1, "[", "]")
      s4 == ReplaceAll(s3, <<"/">>, <<" ", "/", " ">>)
      s5 == ReplaceAll(s4, <<" ", " ">>, <<" ">>)
  IN Strip(s5)

RECURSIVE coalesce_numeric_runs(_, _)
\* coalesce_numeric_runs: neighbouring one-digit items are joined (buf is
\* the open digit run)
coalesce_numeric_runs(text_list, buf) ==
  IF text_list = <<>> THEN (IF buf # <<>> THEN <<buf>> ELSE <<>>)
  ELSE LET t == text_list[1]
       IN IF Len(t) = 1 /\ IsDigit(t[1])
          THEN coalesce_numeric_runs(Tail(text_list), buf \o t)
          ELSE (IF buf # <<>> THEN <<buf>> ELSE <<>>) \o <<t>>
                 \o coalesce_numeric_runs(Tail(text_list), <<>>)

RECURSIVE RedRunTexts(_)
\* the texts of the runs of a paragraph that is_red_font accepts and that
\* are not empty
RedRunTexts(para) ==
  IF para = <<>> THEN <<>>
  ELSE (IF is_red_font(para[1]) /\ para[1].text # <<>> THEN <<para[1].text>> ELSE <<>>)
       \o RedRunTexts(Tail(para))

\* the red text the extractor reads from a cell ("" when there is none)
CellRedText(cell) ==
  LET reds == ConcatAll([i \in 1..Len(cell) |-> RedRunTexts(cell[i])])
  IN IF reds = <<>> THEN <<>>
     ELSE normalize_text(JoinWith(coalesce_numeric_runs(reds, <<>>), <<" ">>))

\* the schema label a row's first cell stands for: the first label equal to
\* it ignoring case, else the first label containing it or contained in it,
\* else <<>> (the schema name collects the value)
RowLabel(row, labels) ==
  LET raw == normalize_text(cell_text(row[1]))
      a_raw == ToUpper(normalize_header_label(raw))
      exact == {k \in 1..Len(labels) : ToUpper(normalize_text(labels[k])) = ToUpper(raw)}
      loose == {k \in 1..Len(labels) :
                  LET a_spec == ToUpper(normalize_header_label(labels[k]))
                  IN Contains(a_raw, a_spec) \/ Contains(a_spec, a_raw)}
  IN IF exact # {} THEN labels[CHOOSE k \in exact : \A j \in exact : k <= j]
     ELSE IF loose # {} THEN labels[CHOOSE k \in loose : \A j \in loose : k <= j]
     ELSE <<>>

\* extract_table_data, generic branch, left orientation: the labels for
\* which the table still yields red text
RedLabelsOfTable(tbl, labels) ==
  {RowLabel(tbl[rc[1]], labels) :
     rc \in {x \in CellsOf(tbl) : CellRedText(tbl[x[1]][x[2]]) # <<>>}}

\* ------------------------------------------------------------------------
\* The writer on a template with one "Audit Information" table
\* ------------------------------------------------------------------------
MaxRuns == 2

DateOfAudit == <<"D","a","t","e"," ","o","f"," ","A","u","d","i","t">>
LocationOfAudit == <<"L","o","c","a","t","i","o","n"," ","o","f"," ","a","u","d","i","t">>
AuditorName == <<"A","u","d","i","t","o","r"," ","n","a","m","e">>
AuditInformation == <<"A","u","d","i","t"," ","I","n","f","o","r","m","a","t","i","o","n">>
\* TABLE_SCHEMAS["Audit Information"]["labels"]
AuditInfoLabels ==
  << DateOfAudit, LocationOfAudit, AuditorName,
     <<"A","u","d","i","t"," ","M","a","t","r","i","x"," ","I","d","e","n","t","i","f","i","e","r"," ",
       "(","N","a","m","e"," ","o","r"," ","N","u","m","b","e","r",")">>,
     <<"A","u","d","i","t","o","r"," ","E","x","e","m","p","l","a","r"," ","G","l","o","b","a","l"," ",
       "R","e","g"," ","N","o",".">>,
     <<"e","x","p","i","r","y"," ","D","a","t","e",":">>,
     <<"N","H","V","R"," ","A","u","d","i","t","o","r"," ","R","e","g","i","s","t","r","a","t","i","o","n"," ",
       "N","u","m","b","e","r">>,
     <<"e","x","p","i","r","y"," ","D","a","t","e",":">> >>

\* run colours of the templates: FF0000, Word's "dark red" C00000, black, none
RunMenu ==
  {[text |-> <<"O","l","d">>, rgb |-> c] : c \in {RED, <<192, 0, 0>>, BLACK, <<>>}}
ParaMenu == SeqsUpTo(RunMenu, MaxRuns)
CellMenu == {<<a>> : a \in ParaMenu} \cup {<<a, b>> : a \in ParaMenu \ {<<>>}, b \in {<<>>, <<[text |-> <<"O","l","d">>, rgb |-> <<192, 0, 0>>]>>, <<[text |-> <<"O","l","d">>, rgb |-> RED]>>}}
LabelCell(text) == << << [text |-> text, rgb |-> <<>>] >> >>

TemplateMenu ==
  { [paragraphs |-> body,
     tables |-> << << <<LabelCell(DateOfAudit), v>>,
                      <<LabelCell(AuditorName), w>> >> >>] :
      body \in { <<>>,
                 << <<[text |-> AuditInformation, rgb |-> <<>>]>>,
                    <<[text |-> <<"O","l","d">>, rgb |-> RED]>> >> },
      v \in CellMenu,
      w \in { << <<[text |-> <<"O","l","d">>, rgb |-> RED]>> >>,
              << <<[text |-> <<"A","n","n">>, rgb |-> BLACK]>> >> } }

MergedMenu ==
  { << [name |-> "Audit Information", title |-> AuditInformation,
        items |-> << [label |-> DateOfAudit, val |-> d] >> \o loc
                     \o << [label |-> AuditorName, val |-> << <<"B","o","b">> >>] >>] >> :
      d \in { <<>>, << <<"N","e","w">> >> },
      loc \in { <<>>, << [label |-> LocationOfAudit, val |-> << <<"L","o","c">> >>] >> } }

WrInit ==
  /\ template \in TemplateMenu
  /\ merged_in \in MergedMenu
  /\ wdoc = template
  /\ wpc = "template"
  /\ red_found = {}
  /\ PipeIdle /\ ExtIdle /\ MgIdle /\ RtIdle

\* run(input_json, template_docx, output_docx)
WriterRun ==
  /\ wpc = "template"
  /\ wdoc' = WriterOutput(merged_in, template)
  /\ wpc' = "written"
  /\ UNCHANGED <<template, merged_in, red_found>> /\ WrFrame

\* the red-text extractor is run on the output
ReExtract ==
  /\ wpc = "written"
  /\ red_found' = RedLabelsOfTable(wdoc.tables[1], AuditInfoLabels)
  /\ wpc' = "extracted"
  /\ UNCHANGED <<template, merged_in, wdoc>> /\ WrFrame

WrNext == WriterRun \/ ReExtract

SpecWriter == WrInit /\ [][WrNext]_vars

\* ------------------------------------------------------------------------
\* The writer on a template with the "Audit Information" table and one
\* repeating-record table
\* ------------------------------------------------------------------------
MaxHeaderRows == 2
MaxDataRows == 2
MaxRecords == 2

RecordTableKinds == {"maintenance", "mass", "driver"}

\* the column titles of the record table of each kind
RecordColumns(kind) ==
  IF kind = "maintenance"
  THEN << <<"N","o",".">>, <<"R","e","g","i","s","t","r","a","t","i","o","n"," ","N","u","m","b","e","r">>, <<"M","a","i","n","t","e","n","a","n","c","e"," ","R","e","c","o","r","d","s">>, <<"F","a","u","l","t"," ","R","e","p","a","i","r">> >>
  ELSE IF kind = "mass"
  THEN << <<"N","o",".">>, <<"R","e","g","i","s","t","r","a","t","i","o","n"," ","N","u","m","b","e","r">>, <<"W","e","i","g","h","t"," ","V","e","r","i","f","i","c","a","t","i","o","n"," ","R","e","c","o","r","d","s">>,
          <<"R","F","S"," ","S","u","s","p","e","n","s","i","o","n"," ","C","e","r","t","i","f","i","c","a","t","i","o","n"," ","#">>, <<"S","u","s","p","e","n","s","i","o","n"," ","S","y","s","t","e","m"," ","M","a","i","n","t","e","n","a","n","c","e">>,
          <<"T","r","i","p"," ","R","e","c","o","r","d","s">> >>
  ELSE << <<"D","r","i","v","e","r"," ","/"," ","S","c","h","e","d","u","l","e","r"," ","N","a","m","e">>, <<"F","i","t"," ","f","o","r"," ","D","u","t","y"," ","S","t","a","t","e","m","e","n","t"," ","C","o","m","p","l","e","t","e","d"," ","(","Y","e","s","/","N","o",")">>,
          <<"W","o","r","k"," ","D","i","a","r","y"," ","P","a","g","e","s"," ","(","P","a","g","e"," ","N","u","m","b","e","r","s",")"," ","E","l","e","c","t","r","o","n","i","c"," ","W","o","r","k"," ","D","i","a","r","y"," ","R","e","c","o","r","d","s"," ","(","D","a","t","e"," ","R","a","n","g","e",")">> >>

DigitChars == <<"1", "2", "3", "4", "5", "6", "7", "8", "9">>
PlaceholderCell == << << [text |-> <<"O","l","d">>, rgb |-> RED] >> >>

\* a template row of a record: the record number in the numbering column,
\* a placeholder in every other cell
PlaceholderRow(kind, k) ==
  [c \in 1..Len(RecordColumns(kind)) |->
     IF c = 1 /\ kind # "driver" THEN LabelCell(<<DigitChars[k], ".">>) ELSE PlaceholderCell]

\* a template record table: the row of the column titles, header_rows - 1
\* further header rows that give the unit of every column but the first,
\* then data_rows placeholder rows
RecordTable(kind, header_rows, data_rows) ==
  << [c \in 1..Len(RecordColumns(kind)) |-> LabelCell(RecordColumns(kind)[c])] >>
  \o [k \in 1..(header_rows - 1) |->
        [c \in 1..Len(RecordColumns(kind)) |->
           LabelCell(IF c = 1 THEN <<>> ELSE <<"(","a","s"," ","s","i","g","h","t","e","d",")">>)]]
  \o [k \in 1..data_rows |-> PlaceholderRow(kind, k)]

\* the arrays of the section of a kind, every array with n entries
RecordArrays(kind, n) ==
  [c \in 1..(Len(RecordColumns(kind)) - (IF kind = "driver" THEN 0 ELSE 1)) |->
     [ label |-> RecordColumns(kind)[c + (IF kind = "driver" THEN 0 ELSE 1)],
       val |-> [k \in 1..n |-> <<"V", DigitChars[c], DigitChars[k]>>] ]]

RecordSectionName(kind) ==
  IF kind = "maintenance" THEN "Vehicle Registration Numbers Maintenance"
  ELSE IF kind = "mass" THEN "Vehicle Registration Numbers Mass"
  ELSE "Driver / Scheduler Records Examined"

FillInit ==
  /\ \E kind \in RecordTableKinds, header_rows \in 1..MaxHeaderRows,
        data_rows \in 0..MaxDataRows, n \in 0..MaxRecords :
       /\ template =
            [ paragraphs |-> <<>>,
              tables |-> << << <<LabelCell(DateOfAudit), PlaceholderCell>>,
                               <<LabelCell(AuditorName), PlaceholderCell>> >>,
                            RecordTable(kind, header_rows, data_rows) >> ]
       /\ merged_in =
            << [ name |-> "Audit Information", title |-> AuditInformation,
                 items |-> << [label |-> DateOfAudit, val |-> << <<"N","e","w">> >>] >> ] >>
            \o [ s \in 1..3 |->
                   CHOOSE sec \in
                     { [ name |-> RecordSectionName(k), title |-> <<>>,
                         items |-> RecordArrays(k, n) ] :
                       k \in { <<"maintenance", "mass", "driver">>[s] } } : TRUE ]
  /\ wdoc = template
  /\ wpc = "template"
  /\ red_found = {}
  /\ PipeIdle /\ ExtIdle /\ MgIdle /\ RtIdle

SpecFill == FillInit /\ [][WrNext]_vars

\* the record table of the template and its kind, found as run() finds it:
\* [kind, index]; the index is 0 when the template has none
TemplateRecordTable ==
  CHOOSE res \in
    { IF m # 0 THEN [kind |-> "maintenance", index |-> m]
      ELSE IF ms # 0 THEN [kind |-> "mass", index |-> ms]
      ELSE [kind |-> "driver", index |-> d] :
      m \in {find_vehicle_table(template)},
      ms \in {find_mass_vehicle_numbers_table(template)},
      d \in {find_driver_table(template)} } : TRUE

\* a header row of a template table: no placeholder and no record number
IsHeaderRow(row) ==
  /\ \A c \in 1..Len(row) : ~CellHasRed(row[c])
  /\ ~NumberedCell(Strip(cell_text(row[1])))

\* the number of header rows of a template table
HeaderRowCount(table) ==
  Cardinality({r \in 1..Len(table) : \A q \in 1..r : IsHeaderRow(table[q])})

\* the length of the merged record array of a kind
RecordCount(kind) ==
  MaxOf({0} \cup {Len(arrays[i].val) :
                    arrays \in {SectionOf(merged_in, RecordSectionName(kind))},
                    i \in 1..Len(SectionOf(merged_in, RecordSectionName(kind)))})

\* ------------------------------------------------------------------------
\* C17: after the writer has filled the record table of the template
\* (maintenance vehicles, mass vehicles or drivers), the header rows of the
\* template are unchanged and the table has one data row for every entry of
\* the merged record array, whatever the numbers of header rows and of data
\* rows of the template.
\* ------------------------------------------------------------------------
C17_HeadersKeptOneRowPerRecord ==
  wpc # "template" =>
    \E t \in {TemplateRecordTable} :
      (t.index # 0 /\ SectionOf(merged_in, RecordSectionName(t.kind)) # <<>>) =>
        \E before \in {template.tables[t.index]},
           after \in {wdoc.tables[t.index]},
           hdr \in {HeaderRowCount(template.tables[t.index])} :
          /\ Len(after) = hdr + RecordCount(t.kind)
          /\ SubSeq(after, 1, hdr) = SubSeq(before, 1, hdr)

\* ------------------------------------------------------------------------
\* C1: the writer changes text or colour only of placeholder (red) runs: a
\* target cell without placeholder run keeps its black text unchanged.
\* ------------------------------------------------------------------------
C1_OnlyPlaceholdersChange ==
  wpc # "template" =>
    \A t \in 1..Len(template.tables) :
      \A rc \in CellsOf(template.tables[t]) :
        LET before == template.tables[t][rc[1]][rc[2]]
            after  == wdoc.tables[t][rc[1]][rc[2]]
        IN /\ Len(after) = Len(before)
           /\ \A i \in 1..Len(before) :
                /\ Len(after[i]) = Len(before[i])
                /\ \A j \in 1..Len(before[i]) :
                     ~is_red_run(before[i][j]) => after[i][j] = before[i][j]

\* ------------------------------------------------------------------------
\* C2: after the writer has written the merged map into the template, the
\* red-text extractor finds no placeholder run left for any label whose
\* merged value was not empty.
\* ------------------------------------------------------------------------
C2_NoPlaceholderLeft ==
  wpc = "extracted" =>
    \A k \in 1..Len(merged_in) :
      \A i \in 1..Len(merged_in[k].items) :
        join_value(merged_in[k].items[i].val) # <<>>
          => merged_in[k].items[i].label \notin red_found

\* the runs of a document: those of the body paragraphs and of the cells
RunsOf(doc) ==
  UNION { {ParaAt(doc, allp[k])[j] : j \in 1..Len(ParaAt(doc, allp[k]))} :
          allp \in {iter_paragraphs(doc)}, k \in 1..Len(iter_paragraphs(doc)) }

\* the colour test of the placeholder: red above 150, green and blue below
\* 100, red more than 30 above both
SaturatedRed(rgb) ==
  /\ rgb # <<>>
  /\ rgb[1] > 150 /\ rgb[2] < 100 /\ rgb[3] < 100
  /\ rgb[1] - rgb[2] > 30 /\ rgb[1] - rgb[3] > 30

\* ------------------------------------------------------------------------
\* C25: for every run of the template, the extractor (is_red_font) and the
\* writer (is_red_run) agree on whether the run is a placeholder, and both
\* take it for one exactly when its colour is a saturated red.
\* ------------------------------------------------------------------------
C25_SameColourTest ==
  \A run \in RunsOf(template) :
    /\ is_red_font(run) <=> SaturatedRed(run.rgb)
    /\ is_red_run(run) <=> SaturatedRed(run.rgb)

\* ------------------------------------------------------------------------
\* The writer on a report template: the management heading with the company
\* name below it, the two declaration headings with their date, the two
\* declaration tables and a maintenance summary table
\* ------------------------------------------------------------------------
PlainPara(text) == <<[text |-> text, rgb |-> <<>>]>>
RedPara(text) == <<[text |-> text, rgb |-> RED]>>
PlaceholderOf(text) == <<RedPara(text)>>

\* the body: with_note puts a second placeholder below the company name
ReportBody(with_note) ==
  << PlainPara(VehicleRecordsTitle), PlainPara(MaintenanceHead), RedPara(<<"C","o","m","p","a","n","y">>) >>
  \o (IF with_note THEN <<RedPara(<<"N","o","t","e">>)>> ELSE <<>>)
  \o << PlainPara(aud_head), RedPara(<<"D","a","t","e">>), PlainPara(ack_head), RedPara(<<"D","a","t","e">>) >>

AuditorDeclaration == <<"N","H","V","A","S"," ","A","p","p","r","o","v","e","d"," ","A","u","d","i","t","o","r"," ","D","e","c","l","a","r","a","t","i","o","n">>
OperatorDeclaration == <<"O","p","e","r","a","t","o","r"," ","D","e","c","l","a","r","a","t","i","o","n">>
MaintenanceSummary == <<"M","a","i","n","t","e","n","a","n","c","e"," ","M","a","n","a","g","e","m","e","n","t"," ","S","u","m","m","a","r","y">>

AuditorTable ==
  << <<LabelCell(PrintNameText), LabelCell(AuditorRegText)>>,
     <<PlaceholderOf(<<"N","a","m","e">>), PlaceholderOf(<<"N","u","m","b","e","r">>)>> >>
OperatorTable ==
  << <<LabelCell(PrintNameText), LabelCell(PositionTitleText)>>,
     <<PlaceholderOf(<<"N","a","m","e">>), PlaceholderOf(<<"T","i","t","l","e">>)>> >>
SummaryTable ==
  << <<LabelCell(MaintenanceHead), LabelCell(<<"D","E","T","A","I","L","S">>)>>,
     <<LabelCell(<<"S","t","d"," ","1","."," ","D","a","i","l","y"," ","C","h","e","c","k">>), PlaceholderOf(<<"O","l","d">>)>>,
     <<LabelCell(<<"S","t","d"," ","2","."," ","F","a","u","l","t"," ","R","e","c","o","r","d","i","n","g">>), PlaceholderOf(<<"O","l","d">>)>> >>

ReportTemplates ==
  { [paragraphs |-> ReportBody(with_note), tables |-> declarations \o <<SummaryTable>>] :
      with_note \in BOOLEAN,
      declarations \in { <<AuditorTable, OperatorTable>>, <<OperatorTable, AuditorTable>> } }

\* the simple sections of the map: none, one declaration, both, or the
\* operator declaration with the position title alone
AuditorSection ==
  [name |-> "NHVAS Approved Auditor Declaration", title |-> AuditorDeclaration,
   items |-> << [label |-> PrintNameText, val |-> <<<<"A","n","n">>>>],
                [label |-> AuditorRegText, val |-> <<<<"1","2","3">>>>] >>]
OperatorSection ==
  [name |-> "Operator Declaration", title |-> OperatorDeclaration,
   items |-> << [label |-> PrintNameText, val |-> <<<<"B","o","b">>>>],
                [label |-> PositionTitleText, val |-> <<<<"B","o","s","s">>>>] >>]
PositionOnlySection ==
  [name |-> "Operator Declaration", title |-> OperatorDeclaration,
   items |-> << [label |-> PositionTitleText, val |-> <<<<"B","o","s","s">>>>] >>]
SimpleMenu ==
  { <<>>, <<AuditorSection>>, <<OperatorSection>>, <<AuditorSection, OperatorSection>>,
    <<PositionOnlySection>> }

ParagraphsSection ==
  [name |-> "paragraphs", title |-> <<"p","a","r","a","g","r","a","p","h","s">>,
   items |-> << [label |-> MaintenanceHead, val |-> <<<<"A","c","m","e">>>>],
                [label |-> aud_head, val |-> <<<<"2"," ","M","a","y"," ","2","0","2","4">>>>],
                [label |-> ack_head, val |-> <<<<"3"," ","M","a","y"," ","2","0","2","4">>>>] >>]
ParagraphsMenu == { <<>>, <<ParagraphsSection>> }

MaintenanceSummaryOf(items) ==
  [name |-> "Maintenance Management Summary", title |-> MaintenanceSummary, items |-> items]
SummaryMenu ==
  { <<>>,
    <<MaintenanceSummaryOf(<< [label |-> <<"S","t","d"," ","1","."," ","D","a","i","l","y"," ","C","h","e","c","k">>, val |-> <<<<"O","n","e">>>>],
                        [label |-> <<"S","t","d"," ","2","."," ","F","a","u","l","t"," ","R","e","c","o","r","d","i","n","g"," ","a","n","d"," ","R","e","p","o","r","t","i","n","g">>, val |-> <<<<"T","w","o">>>>] >>)>>,
    <<MaintenanceSummaryOf(<< [label |-> <<"S","t","d"," ","1","0","."," ","E","x","t","r","a">>, val |-> <<<<"T","e","n">>>>] >>)>>,
    <<MaintenanceSummaryOf(<< [label |-> <<"S","t","d"," ","1","."," ","D","a","i","l","y"," ","C","h","e","c","k">>, val |-> <<>>],
                        [label |-> <<"S","t","d"," ","1","0","."," ","E","x","t","r","a">>, val |-> <<<<"T","e","n">>>>] >>)>> }

ReportMaps ==
  { simple \o paras \o summary :
      simple \in SimpleMenu, paras \in ParagraphsMenu, summary \in SummaryMenu }

ReportInit ==
  /\ template \in ReportTemplates
  /\ merged_in \in ReportMaps
  /\ wdoc = template
  /\ wpc = "template"
  /\ red_found = {}
  /\ PipeIdle /\ ExtIdle /\ MgIdle /\ RtIdle

SpecReport == ReportInit /\ [][WrNext]_vars

\* ------------------------------------------------------------------------
\* Properties of the writer on a report template
\* ------------------------------------------------------------------------
\* the runs of the document that read text, as <<paragraph, run>>
RunsReading(doc, text) ==
  UNION { { <<k, j>> : j \in {i \in 1..Len(ParaAt(doc, allp[k])) :
                                ParaAt(doc, allp[k])[i].text = text} } :
          allp \in {iter_paragraphs(doc)}, k \in 1..Len(iter_paragraphs(doc)) }

\* the paragraph values of the map that have a text
ParagraphValues ==
  { join_value(item.val) : item \in Range(SectionOf(merged_in, "paragraphs")) } \ {<<>>}

\* C26: once run() has written the document, each paragraph value of the
\* map (the company name, the two dates) stands in exactly one run of the
\* document, whatever the number of simple label/value entries of the map.
C26_ParagraphValuesWrittenOnce ==
  wpc # "template" =>
    \A value \in ParagraphValues : Cardinality(RunsReading(wdoc, value)) = 1

\* the number of a label "Std N ..." as the writer keys it, <<>> without one
StdNumberOf(label) ==
  CHOOSE res \in
    { IF p = <<>> THEN <<>> ELSE SubSeq(p, RunEnd(p, 4, "space") + 1, Len(p)) :
      p \in {StdPrefix(canon_label(label))} } : TRUE

\* the texts the map holds for the number in the maintenance summary
SummaryTextsFor(number) ==
  { join_value(item.val) :
      item \in {x \in Range(SectionOf(merged_in, "Maintenance Management Summary")) :
                  StdNumberOf(x.label) = number} } \ {<<>>}

\* the summary tables of the template
SummaryTablesOf(doc) ==
  {t \in 1..Len(doc.tables) : _looks_like_summary_table(doc.tables[t]) # <<>>}

\* C28: in a summary table, the DETAILS cell of a row labelled Std N reads a
\* text of the map whose key has the number N, and the row is as the steps
\* before the overwrite left it when the map has no text for N.
C28_DetailsOfSameNumber ==
  wpc # "template" =>
    \E before \in {BeforeSummaries(merged_in, template)} :
      \A t \in SummaryTablesOf(template) :
        \A r \in 2..Len(template.tables[t]) :
          \E texts \in {SummaryTextsFor(StdNumberOf(cell_text(template.tables[t][r][1])))} :
            IF texts = {} THEN wdoc.tables[t][r] = before.tables[t][r]
            ELSE cell_text(wdoc.tables[t][r][2]) \in texts

\* the table of a declaration section in the template: the one whose header
\* row holds the labels of the section
SectionTable(section) ==
  CHOOSE t \in 1..Len(template.tables) :
    \A k \in 1..Len(section.items) :
      \E c \in 1..Len(template.tables[t][1]) :
        cell_text(template.tables[t][1][c]) = section.items[k].label

\* the simple sections of the map
SimpleSections ==
  {merged_in[k] : k \in {i \in 1..Len(merged_in) : merged_in[i].name \notin skip_sections}}

\* C29: once run() has written the document, the value of each label of a
\* declaration section stands in the cell below that label in the table of
\* the section and in no cell of another table, and the header cells of
\* every table read as in the template.
C29_ValuesInOwnSection ==
  wpc # "template" =>
    /\ \A t \in 1..Len(template.tables) :
         \A c \in 1..Len(template.tables[t][1]) :
           cell_text(wdoc.tables[t][1][c]) = cell_text(template.tables[t][1][c])
    /\ \A section \in SimpleSections :
         \A k \in 1..Len(section.items) :
           \E own \in {SectionTable(section)}, value \in {join_value(section.items[k].val)} :
             /\ \E c \in 1..Len(template.tables[own][1]) :
                  /\ cell_text(template.tables[own][1][c]) = section.items[k].label
                  /\ cell_text(wdoc.tables[own][2][c]) = value
             /\ \A t \in (1..Len(wdoc.tables)) \ {own} :
                  \A rc \in CellsOf(wdoc.tables[t]) :
                    cell_text(wdoc.tables[t][rc[1]][rc[2]]) # value

\* ========================================================================
\* Merger  (space-pdf/space-pdf/update_docx_with_pdf.py, class NHVASMerger)
\* ========================================================================
\* A Python dict is a function whose domain is the set of its keys; the keys
\* of the DOCX map, of pdf_data and of the extraction are never inspected
\* character by character and are plain strings, every value that the
\* merger cleans or tests is a character sequence.  None is the empty
\* string where the source only tests truthiness, and -1 for a column index.
\* Intermediate results are bound by  \E / CHOOSE x \in {e}  rather than by
\* LET, so that e is evaluated once.
Get(d, k, default) == IF k \in DOMAIN d THEN d[k] ELSE default
Put(d, k, v) == [x \in DOMAIN d \cup {k} |-> IF x = k THEN v ELSE d[x]]
Update(a, b) == [x \in DOMAIN a \cup DOMAIN b |-> IF x \in DOMAIN b THEN b[x] ELSE a[x]]

\* " ".join(str(c).strip() for c in row[1:] if str(c).strip())
RowVals(row) ==
  JoinWith(SelectSeq([i \in 1..(Len(row) - 1) |-> Strip(row[i + 1])],
                     LAMBDA c : c # <<>>), <<" ">>)

RECURSIVE AllRows(_)
\* the rows of all tables, in the order in which the loops visit them
AllRows(tables) ==
  IF tables = <<>> THEN <<>> ELSE tables[1].data \o AllRows(Tail(tables))

\* _find_table_value: the cleaned value of the first row whose first cell is
\* one of the label variants and which has a non-blank value; <<>> for None
_find_table_value(tables, label_variants) ==
  CHOOSE res \in
    { IF hits = {} THEN <<>>
      ELSE _smart_space(RowVals(AllRows(tables)[MinOf(hits)])) :
      hits \in { { k \in 1..Len(rows) :
                     /\ rows[k] # <<>>
                     /\ _canon(rows[k][1]) \in {_canon(v) : v \in label_variants}
                     /\ RowVals(rows[k]) # <<>> } :
                 rows \in {AllRows(tables)} } } : TRUE

\* " ".join(str(h) for h in headers).lower()
HeaderText(headers) == ToLower(JoinWith(headers, <<" ">>))

_is_audit_info_table(headers) ==
  \E txt \in {HeaderText(headers)} :
    \E t \in {<<"a","u","d","i","t">>, <<"d","a","t","e">>, <<"l","o","c","a","t","i","o","n">>, <<"a","u","d","i","t","o","r">>} : Contains(txt, t)

_is_operator_info_table(headers) ==
  \E txt \in {HeaderText(headers)} :
    \E t \in {<<"o","p","e","r","a","t","o","r">>, <<"c","o","m","p","a","n","y">>, <<"t","r","a","d","i","n","g">>, <<"a","d","d","r","e","s","s">>} : Contains(txt, t)

\* re.search(r"\breg(?:istration)?\b", h)
HasRegWord(h) ==
  \E w \in {<<"r","e","g">>, <<"r","e","g","i","s","t","r","a","t","i","o","n">>} :
    \E i \in 1..Len(h) :
      MatchAt(h, w, i) /\ WordBoundary(h, i) /\ WordBoundary(h, i + Len(w))

VehicleSignals ==
  { <<"r","o","a","d","w","o","r","t","h","i","n","e","s","s">>, <<"m","a","i","n","t","e","n","a","n","c","e"," ","r","e","c","o","r","d","s">>, <<"d","a","i","l","y"," ","c","h","e","c","k","s">>, <<"f","a","u","l","t"," ","r","e","c","o","r","d","i","n","g">>,
    <<"f","a","u","l","t"," ","r","e","p","a","i","r">>, <<"s","u","b"," ","c","o","n","t","r","a","c","t","o","r">>, <<"s","u","b","-","c","o","n","t","r","a","c","t","o","r">>, <<"w","e","i","g","h","t"," ","v","e","r","i","f","i","c","a","t","i","o","n">>,
    <<"r","f","s"," ","s","u","s","p","e","n","s","i","o","n">>, <<"s","u","s","p","e","n","s","i","o","n"," ","s","y","s","t","e","m"," ","m","a","i","n","t","e","n","a","n","c","e">>, <<"t","r","i","p"," ","r","e","c","o","r","d","s">>,
    <<"f","a","u","l","t"," ","r","e","c","o","r","d","i","n","g"," ","r","e","p","o","r","t","i","n","g"," ","o","n"," ","s","u","s","p","e","n","s","i","o","n"," ","s","y","s","t","e","m">>, <<"f","a","u","l","t"," ","r","e","p","o","r","t","i","n","g"," ","s","u","s","p","e","n","s","i","o","n">> }

_is_vehicle_registration_table(headers) ==
  /\ headers # <<>>
  /\ \E ch \in {[i \in 1..Len(headers) |-> _canon_header(headers[i])]} :
       /\ \E i \in 1..Len(ch) :
            \/ Contains(ch[i], <<"r","e","g","i","s","t","r","a","t","i","o","n">>)
            \/ HasRegWord(ch[i])
            \/ (Contains(ch[i], <<"r","e","g">>) /\ Contains(ch[i], <<"n","o">>))
       /\ \E i \in 1..Len(ch) : \E tok \in VehicleSignals : Contains(ch[i], tok)

\* re.match(r"^\d+\.?$", first): a row number such as "1." or "12"
IsRowNumber(first) ==
  /\ first # <<>>
  /\ \E body \in {IF first[Len(first)] = "." THEN SubSeq(first, 1, Len(first) - 1)
                  ELSE first} :
       body # <<>> /\ \A i \in 1..Len(body) : IsDigit(body[i])

\* data_rows[:5]: at most this many leading rows are taken as header fragments
HeaderFragRows == 5

RECURSIVE Consumed(_, _)
\* the number of leading rows, from row i on, that are header fragments
Consumed(data_rows, i) ==
  IF i > Len(data_rows) \/ i > HeaderFragRows THEN i - 1
  ELSE IF IsRowNumber(IF data_rows[i] = <<>> THEN <<>> ELSE Strip(data_rows[i][1]))
       THEN i - 1
       ELSE Consumed(data_rows, i + 1)

\* one fragment cell: skipped when blank, appended past the last header,
\* else joined to the header of its column
MergeCell(merged, i, cell_txt) ==
  IF cell_txt = <<>> THEN merged
  ELSE IF i > Len(merged) THEN Append(merged, cell_txt)
  ELSE [merged EXCEPT ![i] = Strip(@ \o <<" ">> \o cell_txt)]

RECURSIVE MergeFrags(_, _, _, _)
\* the fragment rows 1..n merged cell by cell (row r, cell i) into merged
MergeFrags(merged, frags, r, i) ==
  IF r > Len(frags) THEN merged
  ELSE IF i > Len(frags[r]) THEN MergeFrags(merged, frags, r + 1, 1)
  ELSE CHOOSE res \in
         { MergeFrags(m2, frags, r, i + 1) :
           m2 \in {MergeCell(merged, i, _smart_space(Strip(frags[r][i])))} } : TRUE

\* _collapse_multiline_headers: <<merged headers, remaining data rows>>
_collapse_multiline_headers(headers, data_rows) ==
  CHOOSE res \in
    { << MergeFrags(m0, SubSeq(data_rows, 1, consumed), 1, 1),
         SubSeq(data_rows, consumed + 1, Len(data_rows)) >> :
      consumed \in {Consumed(data_rows, 1)},
      m0 \in {[i \in 1..Len(headers) |-> _smart_space(headers[i])]} } : TRUE

\* ------------------------------------------------------------------------
\* Vehicle tables: header mapping and tolerant cell picking
\* ------------------------------------------------------------------------
\* _VEH_HEADER_ALIASES: <<canonical header, internal key>>
_VEH_HEADER_ALIASES ==
  { <<<<"r","e","g","i","s","t","r","a","t","i","o","n"," ","n","u","m","b","e","r">>, "registration">>,
    <<<<"r","e","g"," ","n","o">>, "registration">>,
    <<<<"r","e","g",".","#">>, "registration">>,
    <<<<"n","o",".">>, "no">>,
    <<<<"n","o">>, "no">>,
    <<<<"r","o","a","d","w","o","r","t","h","i","n","e","s","s"," ","c","e","r","t","i","f","i","c","a","t","e","s">>, "roadworthiness">>,
    <<<<"m","a","i","n","t","e","n","a","n","c","e"," ","r","e","c","o","r","d","s">>, "maintenance_records">>,
    <<<<"d","a","i","l","y"," ","c","h","e","c","k","s">>, "daily_checks">>,
    <<<<"f","a","u","l","t"," ","r","e","c","o","r","d","i","n","g"," ","r","e","p","o","r","t","i","n","g">>, "fault_recording">>,
    <<<<"f","a","u","l","t"," ","r","e","c","o","r","d","i","n","g"," ","/"," ","r","e","p","o","r","t","i","n","g">>, "fault_recording">>,
    <<<<"f","a","u","l","t"," ","r","e","p","a","i","r">>, "fault_repair">>,
    <<<<"s","u","b"," ","c","o","n","t","r","a","c","t","o","r">>, "sub_contractor">>,
    <<<<"s","u","b","-","c","o","n","t","r","a","c","t","o","r">>, "sub_contractor">>,
    <<<<"s","u","b"," ","c","o","n","t","r","a","c","t","e","d"," ","v","e","h","i","c","l","e","s"," ","s","t","a","t","e","m","e","n","t"," ","o","f"," ","c","o","m","p","l","i","a","n","c","e">>, "sub_comp">>,
    <<<<"s","u","b","-","c","o","n","t","r","a","c","t","e","d"," ","v","e","h","i","c","l","e","s"," ","s","t","a","t","e","m","e","n","t"," ","o","f"," ","c","o","m","p","l","i","a","n","c","e">>, "sub_comp">>,
    <<<<"w","e","i","g","h","t"," ","v","e","r","i","f","i","c","a","t","i","o","n"," ","r","e","c","o","r","d","s">>, "weight_verification">>,
    <<<<"r","f","s"," ","s","u","s","p","e","n","s","i","o","n"," ","c","e","r","t","i","f","i","c","a","t","i","o","n"," ","#">>, "rfs_certification">>,
    <<<<"r","f","s"," ","s","u","s","p","e","n","s","i","o","n"," ","c","e","r","t","i","f","i","c","a","t","i","o","n"," ","n","u","m","b","e","r">>, "rfs_certification">>,
    <<<<"s","u","s","p","e","n","s","i","o","n"," ","s","y","s","t","e","m"," ","m","a","i","n","t","e","n","a","n","c","e">>, "suspension_maintenance">>,
    <<<<"t","r","i","p"," ","r","e","c","o","r","d","s">>, "trip_records">>,
    <<<<"f","a","u","l","t"," ","r","e","c","o","r","d","i","n","g"," ","r","e","p","o","r","t","i","n","g"," ","o","n"," ","s","u","s","p","e","n","s","i","o","n"," ","s","y","s","t","e","m">>, "fault_reporting_suspension">>,
    <<<<"f","a","u","l","t"," ","r","e","c","o","r","d","i","n","g"," ","/"," ","r","e","p","o","r","t","i","n","g"," ","o","n"," ","s","u","s","p","e","n","s","i","o","n"," ","s","y","s","t","e","m">>, "fault_reporting_suspension">> }

\* the internal key of one canonical header ("none" when the loop body of
\* _map_header_indices assigns nothing)
HeaderKey(ch) ==
  IF \E a \in _VEH_HEADER_ALIASES : a[1] = ch
  THEN (CHOOSE a \in _VEH_HEADER_ALIASES : a[1] = ch)[2]
  ELSE IF Contains(ch, <<"r","e","g","i","s","t","r","a","t","i","o","n">>) /\ Contains(ch, <<"n","u","m","b","e","r">>) THEN "registration"
  ELSE IF Contains(ch, <<"r","o","a","d","w","o","r","t","h","i","n","e","s","s">>) THEN "roadworthiness"
  ELSE IF Contains(ch, <<"m","a","i","n","t","e","n","a","n","c","e">>) /\ Contains(ch, <<"r","e","c","o","r","d","s">>) THEN "maintenance_records"
  ELSE IF Contains(ch, <<"d","a","i","l","y">>) /\ Contains(ch, <<"c","h","e","c","k">>) THEN "daily_checks"
  ELSE IF Contains(ch, <<"f","a","u","l","t">>) /\ Contains(ch, <<"r","e","c","o","r","d">>) /\ ~Contains(ch, <<"s","u","s","p","e","n","s","i","o","n">>)
       THEN (IF Contains(ch, <<"r","e","p","a","i","r">>) THEN "fault_repair" ELSE "fault_recording")
  ELSE IF Contains(ch, <<"w","e","i","g","h","t">>) /\ Contains(ch, <<"v","e","r","i","f","i","c","a","t","i","o","n">>) THEN "weight_verification"
  ELSE IF Contains(ch, <<"r","f","s">>) /\ Contains(ch, <<"c","e","r","t","i","f","i","c","a","t","i","o","n">>) THEN "rfs_certification"
  ELSE IF Contains(ch, <<"s","u","s","p","e","n","s","i","o","n">>) /\ Contains(ch, <<"m","a","i","n","t","e","n","a","n","c","e">>) THEN "suspension_maintenance"
  ELSE IF Contains(ch, <<"t","r","i","p">>) /\ Contains(ch, <<"r","e","c","o","r","d">>) THEN "trip_records"
  ELSE IF Contains(ch, <<"f","a","u","l","t">>) /\ Contains(ch, <<"r","e","p","o","r","t">>) /\ Contains(ch, <<"s","u","s","p","e","n","s","i","o","n">>)
       THEN "fault_reporting_suspension"
  ELSE "none"

\* _map_header_indices: {internal key: column index}, columns counted from 0
\* as in the source; a later header of the same key overwrites an earlier one
_map_header_indices(headers) ==
  CHOOSE idx \in
    { [k \in {keys[i] : i \in DOMAIN keys} \ {"none"} |->
         MaxOf({i - 1 : i \in {j \in DOMAIN keys : keys[j] = k}})] :
      keys \in { [i \in 1..Len(headers) |->
                   CHOOSE k \in {HeaderKey(c) : c \in {_canon_header(headers[i])}} : TRUE] } } : TRUE

\* cell(i) of _pick_nearby: "" outside the row, else the stripped cell
Cell(row, i) == IF i < 0 \/ i >= Len(row) THEN <<>> ELSE Strip(row[i + 1])

\* what one cell yields for the wanted kind of value (<<>>: nothing)
PickCell(want, c) ==
  CASE want = "plate" -> IF looks_like_plate(c) THEN _smart_space(c) ELSE <<>>
    [] want = "date"  -> IF is_dateish(c) THEN _smart_space(c) ELSE <<>>
    [] want = "rf"    -> _smart_space(RfSearch(c))
    [] want = "yn"    -> IF ToLower(Strip(c)) = <<"y","e","s">> THEN <<"Y","e","s">>
                         ELSE IF ToLower(Strip(c)) = <<"n","o">> THEN <<"N","o">> ELSE <<>>

\* the k-th column looked at: the anchor, then anchor-1, anchor+1, anchor-2, ...
NearIdx(anchor_idx, k) ==
  IF k = 1 THEN anchor_idx
  ELSE IF k % 2 = 0 THEN anchor_idx - (k \div 2) ELSE anchor_idx + (k \div 2)

FirstNonEmpty(picks) ==
  IF \E k \in DOMAIN picks : picks[k] # <<>>
  THEN picks[MinOf({k \in DOMAIN picks : picks[k] # <<>>})]
  ELSE <<>>

\* step 3 of _pick_nearby: the whole row joined by spaces
RowScan(row, want) ==
  CHOOSE res \in
    { CASE want = "plate" ->
             FirstNonEmpty([k \in 1..Len(Tokens(joined)) |->
                              PickCell("plate", Tokens(joined)[k])])
        [] want = "date" ->
             (IF extract_date_tokens(joined) = <<>> THEN <<>>
              ELSE extract_date_tokens(joined)[1])
        [] want = "rf" -> _smart_space(RfSearch(joined))
        [] want = "yn" ->
             (IF Contains(<<" ">> \o ToLower(joined) \o <<" ">>, <<" ","y","e","s"," ">>) THEN <<"Y","e","s">>
              ELSE IF Contains(<<" ">> \o ToLower(joined) \o <<" ">>, <<" ","n","o"," ">>) THEN <<"N","o">>
              ELSE <<>>) :
      joined \in {JoinWith(row, <<" ">>)} } : TRUE

\* _pick_nearby(row, anchor_idx, want, window); anchor_idx = -1 is None
_pick_nearby(row, anchor_idx, want, window) ==
  CHOOSE res \in
    { IF near # <<>> THEN near ELSE RowScan(row, want) :
      near \in
        { FirstNonEmpty(p) :
          p \in { [k \in 1..(IF anchor_idx < 0 THEN 1 ELSE 2 * window + 1) |->
                    PickCell(want, Cell(row, NearIdx(anchor_idx, k)))] } } } : TRUE

\* ------------------------------------------------------------------------
\* _extract_vehicle_registration_table.  The extraction state st is the record
\* [ex |-> the dict "extracted", acc |-> self._vehicle_by_reg, raised |-> the
\* exception that ended the parsing, "" for none]; the ordered
\* dict is the sequence of its vehicle dicts in insertion order.
\* ------------------------------------------------------------------------
\* idx_of(*needles): the first header that contains every needle, or None
IdxOf(ch, needles) ==
  IF \E i \in 1..Len(ch) : \A n \in needles : Contains(ch[i], n)
  THEN MinOf({i \in 1..Len(ch) : \A n \in needles : Contains(ch[i], n)}) - 1
  ELSE -1

\* Python's  a or b  on column indices: None and 0 are both false
Or(a, b) == IF a > 0 THEN a ELSE b

\* the anchor columns and the table type
VehicleColumns(headers) ==
  CHOOSE cols \in
    { [ reg |-> Or(Get(alias, "registration", -1),
                   Or(IdxOf(ch, {<<"r","e","g","i","s","t","r","a","t","i","o","n"," ","n","u","m","b","e","r">>}),
                      Or(IdxOf(ch, {<<"r","e","g","i","s","t","r","a","t","i","o","n">>}), IdxOf(ch, {<<"r","e","g">>, <<"n","o">>})))),
        rw    |-> Or(Get(alias, "roadworthiness", -1), IdxOf(ch, {<<"r","o","a","d","w","o","r","t","h","i","n","e","s","s">>})),
        maint |-> Or(Get(alias, "maintenance_records", -1),
                     IdxOf(ch, {<<"m","a","i","n","t","e","n","a","n","c","e">>, <<"r","e","c","o","r","d","s">>})),
        daily |-> Or(Get(alias, "daily_checks", -1), IdxOf(ch, {<<"d","a","i","l","y">>, <<"c","h","e","c","k">>})),
        fr    |-> Or(Get(alias, "fault_recording", -1), IdxOf(ch, {<<"f","a","u","l","t">>, <<"r","e","c","o","r","d","i","n","g">>})),
        rep   |-> Or(Get(alias, "fault_repair", -1), IdxOf(ch, {<<"f","a","u","l","t">>, <<"r","e","p","a","i","r">>})),
        weight |-> Or(Get(alias, "weight_verification", -1),
                      IdxOf(ch, {<<"w","e","i","g","h","t">>, <<"v","e","r","i","f","i","c","a","t","i","o","n">>})),
        rfs   |-> Or(Get(alias, "rfs_certification", -1),
                     IdxOf(ch, {<<"r","f","s">>, <<"c","e","r","t","i","f","i","c","a","t","i","o","n">>})),
        susp  |-> Or(Get(alias, "suspension_maintenance", -1),
                     IdxOf(ch, {<<"s","u","s","p","e","n","s","i","o","n">>, <<"m","a","i","n","t","e","n","a","n","c","e">>})),
        trip  |-> Or(Get(alias, "trip_records", -1), IdxOf(ch, {<<"t","r","i","p">>, <<"r","e","c","o","r","d","s">>})),
        frs   |-> Or(Get(alias, "fault_reporting_suspension", -1),
                     IdxOf(ch, {<<"f","a","u","l","t">>, <<"r","e","p","o","r","t","i","n","g">>, <<"s","u","s","p","e","n","s","i","o","n">>})),
        sub   |-> IdxOf(ch, {<<"s","u","b">>, <<"c","o","n","t","r","a","c","t","o","r">>}),
        sub_comp |-> IdxOf(ch, {<<"s","u","b"," ","c","o","n","t","r","a","c","t","e","d"," ","v","e","h","i","c","l","e","s"," ","s","t","a","t","e","m","e","n","t"," ","o","f"," ","c","o","m","p","l","i","a","n","c","e">>}),
        is_maint |-> \E i \in 1..Len(ch) :
                       \/ Contains(ch[i], <<"r","o","a","d","w","o","r","t","h","i","n","e","s","s">>)
                       \/ Contains(ch[i], <<"m","a","i","n","t","e","n","a","n","c","e"," ","r","e","c","o","r","d","s">>)
                       \/ (Contains(ch[i], <<"d","a","i","l","y">>) /\ Contains(ch[i], <<"c","h","e","c","k">>))
                       \/ Contains(ch[i], <<"f","a","u","l","t"," ","r","e","p","a","i","r">>) ] :
      ch \in {[i \in 1..Len(headers) |-> _canon_header(headers[i])]},
      alias \in {_map_header_indices(headers)} } : TRUE

\* the <<anchor column, wanted kind, window>> of every value that the row loop
\* picks from a row: the plate, then the values of the table's type
PickAnchors(cols) ==
  << <<cols.reg, "plate", 4>> >> \o
  ( IF cols.is_maint
    THEN << <<cols.rw, "date", 4>>, <<cols.maint, "date", 4>>, <<cols.daily, "date", 4>>,
            <<cols.fr, "date", 4>>, <<cols.rep, "date", 4>> >>
    ELSE << <<cols.weight, "date", 4>>, <<cols.rfs, "rf", 5>>, <<cols.susp, "date", 4>>,
            <<cols.trip, "date", 4>>, <<cols.frs, "date", 4>>, <<cols.sub, "yn", 3>>,
            <<cols.sub_comp, "yn", 3>> >> )

\* self._pick_nearby(r, anchor, want, window) for each of the anchors
PickEach(r, anchors) ==
  [k \in 1..Len(anchors) |-> _pick_nearby(r, anchors[k][1], anchors[k][2], anchors[k][3])]

\* the five dates of a maintenance row, after the fallbacks (p: the picks of
\* the row in the order of PickAnchors)
MaintValues(p) ==
  [ rw  |-> p[2], dc |-> p[4],
    mr  |-> IF p[3] = <<>> THEN p[4] ELSE p[3],
    fr  |-> IF p[5] = <<>> THEN p[6] ELSE p[5],
    rep |-> IF p[6] = <<>> THEN p[5] ELSE p[6] ]

\* the values of a mass (or mixed) row
MassValues(p) ==
  [ wv |-> p[2], rfs |-> p[3], sm |-> p[4], tr |-> p[5], frs |-> p[6], yn1 |-> p[7],
    yn2 |-> IF p[8] = <<>> THEN p[7] ELSE p[8] ]

\* if x: v.setdefault(k, x)
SetDefaultIf(v, k, x) == IF x = <<>> \/ k \in DOMAIN v THEN v ELSE Put(v, k, x)

MaintVehicle(v, m) ==
  SetDefaultIf(SetDefaultIf(SetDefaultIf(SetDefaultIf(SetDefaultIf(
    Put(v, "seen_in_maintenance", TRUE),
    "roadworthiness", m.rw), "maintenance_records", m.mr), "daily_checks", m.dc),
    "fault_recording", m.fr), "fault_repair", m.rep)

MassVehicle(v, m) ==
  SetDefaultIf(SetDefaultIf(SetDefaultIf(SetDefaultIf(SetDefaultIf(SetDefaultIf(SetDefaultIf(
    Put(v, "seen_in_mass", TRUE),
    "sub_contractor", m.yn1), "sub_comp", m.yn2), "weight_verification", m.wv),
    "rfs_certification", SelectChars(ToUpper(_smart_space(m.rfs)), {" "})),
    "suspension_maintenance", m.sm), "trip_records", m.tr),
    "fault_reporting_suspension", m.frs)

\* self._vehicle_by_reg[reg] = v  (a new key goes last)
AccPut(acc, v) ==
  IF \E i \in 1..Len(acc) : acc[i].registration = v.registration
  THEN [i \in 1..Len(acc) |-> IF acc[i].registration = v.registration THEN v ELSE acc[i]]
  ELSE Append(acc, v)

\* self._vehicle_by_reg.get(reg), or the new vehicle {"registration": reg}
AccGet(acc, reg) ==
  IF \E i \in 1..Len(acc) : acc[i].registration = reg
  THEN acc[CHOOSE i \in 1..Len(acc) : acc[i].registration = reg]
  ELSE [registration |-> reg]

\* the body of the row loop for a row whose plate is reg (p: the picks of the
\* row)
VehicleRowAdd(st, reg, p, cols) ==
  IF cols.is_maint
  THEN CHOOSE res \in
         { [ st EXCEPT
               !.acc = AccPut(st.acc, MaintVehicle(AccGet(st.acc, reg), m)),
               !.ex  = Put(st.ex, "_maint_rows",
                         Append(st.ex["_maint_rows"],
                                [ registration |-> reg,
                                  roadworthiness |-> m.rw,
                                  maintenance_records |-> IF m.mr = <<>> THEN m.dc ELSE m.mr,
                                  daily_checks |-> m.dc,
                                  fault_recording |-> IF m.fr = <<>> THEN m.rep ELSE m.fr,
                                  fault_repair |-> IF m.rep = <<>> THEN m.fr ELSE m.rep ])) ] :
           m \in {MaintValues(p)} } : TRUE
  ELSE CHOOSE res \in
         { [ st EXCEPT !.acc = AccPut(st.acc, MassVehicle(AccGet(st.acc, reg), m)) ] :
           m \in {MassValues(p)} } : TRUE

RECURSIVE VehicleRows(_, _, _, _)
\* the row loop: rows without a plate are skipped.  (The picks have no side
\* effect, so those of the values are taken together with that of the plate.)
VehicleRows(st, rows, i, cols) ==
  IF i > Len(rows) THEN st
  ELSE CHOOSE res \in
         { VehicleRows(s2, rows, i + 1, cols) :
           s2 \in { IF p[1] = <<>> \/ ~looks_like_plate(p[1]) THEN st
                    ELSE VehicleRowAdd(st, p[1], p, cols) :
                    p \in {PickEach(rows[i], PickAnchors(cols))} } } : TRUE

\* maint_rows = extracted.setdefault("_maint_rows", []) if is_maint else None
VehicleStart(st, is_maint) ==
  IF is_maint /\ "_maint_rows" \notin DOMAIN st.ex
  THEN [st EXCEPT !.ex = Put(@, "_maint_rows", <<>>)] ELSE st

\* the table's rows go to the accumulator, then
\* extracted["vehicles"] = list(self._vehicle_by_reg.values())
_extract_vehicle_registration_table(headers, rows, st) ==
  CHOOSE res \in
    { [s2 EXCEPT !.ex = Put(s2.ex, "vehicles", s2.acc)] :
      s2 \in { VehicleRows(VehicleStart(st, cols.is_maint), rows, 1, cols) :
               cols \in {VehicleColumns(headers)} } } : TRUE

\* ------------------------------------------------------------------------
\* Key/value tables and the label index
\* ------------------------------------------------------------------------
\* the field a row of an audit ("audit") or operator ("operator") table sets
FieldOf(kind, key, val) ==
  IF kind = "audit"
  THEN IF Contains(key, <<"d","a","t","e">>) /\ Contains(key, <<"a","u","d","i","t">>) THEN "date_of_audit"
       ELSE IF Contains(key, <<"l","o","c","a","t","i","o","n">>) THEN "location"
       ELSE IF Contains(key, <<"a","u","d","i","t","o","r">>) /\ Contains(key, <<"n","a","m","e">>) THEN "auditor_name"
       ELSE IF Contains(key, <<"m","a","t","r","i","x">>) THEN "matrix_id"
       ELSE "none"
  ELSE IF Contains(key, <<"o","p","e","r","a","t","o","r">>) /\ Contains(key, <<"n","a","m","e">>) /\ _looks_like_company(val)
       THEN "name"
       ELSE IF Contains(key, <<"t","r","a","d","i","n","g">>) THEN "trading_name"
       ELSE IF Contains(key, <<"a","u","s","t","r","a","l","i","a","n">>) /\ Contains(key, <<"c","o","m","p","a","n","y">>) THEN "acn"
       ELSE IF Contains(key, <<"b","u","s","i","n","e","s","s">>) /\ Contains(key, <<"a","d","d","r","e","s","s">>) THEN "business_address"
       ELSE IF Contains(key, <<"p","o","s","t","a","l">>) /\ Contains(key, <<"a","d","d","r","e","s","s">>) THEN "postal_address"
       ELSE IF Contains(key, <<"e","m","a","i","l">>) THEN "email"
       ELSE IF Contains(key, <<"t","e","l","e","p","h","o","n","e">>) \/ Contains(key, <<"p","h","o","n","e">>) THEN "phone"
       ELSE IF (Contains(key, <<"m","a","n","u","a","l">>) \/ Contains(key, <<"d","e","v","e","l","o","p","e","d">>))
               /\ _looks_like_manual_value(val) THEN "manual"
       ELSE "none"

PutField(d, f, val) == IF f = "none" THEN d ELSE Put(d, f, val)

RECURSIVE KeyValueRows(_, _, _, _)
\* the row loop of _extract_audit_info_table / _extract_operator_info_table
KeyValueRows(d, rows, i, kind) ==
  IF i > Len(rows) THEN d
  ELSE CHOOSE res \in
         { KeyValueRows(d2, rows, i + 1, kind) :
           d2 \in { IF Len(rows[i]) < 2 \/ val = <<>> THEN d
                    ELSE PutField(d, FieldOf(kind, _canon(rows[i][1]), val), val) :
                    val \in {_smart_space(RowVals(rows[i]))} } } : TRUE

_extract_audit_info_table(data_rows, extracted) ==
  Put(extracted, "audit_info",
      KeyValueRows(Get(extracted, "audit_info", <<>>), data_rows, 1, "audit"))

_extract_operator_info_table(data_rows, extracted) ==
  Put(extracted, "operator_info",
      KeyValueRows(Get(extracted, "operator_info", <<>>), data_rows, 1, "operator"))

\* ------------------------------------------------------------------------
\* _extract_driver_table
\* ------------------------------------------------------------------------
\* \w of the canonical headers: a letter or a digit
IsWordChar(c) == IsAlpha(c) \/ IsDigit(c)

\* re.search(r"\btext\b", h) for a text that starts and ends with a word
\* character
HasWord(h, text) ==
  \E i \in 1..Len(h) :
    /\ MatchAt(h, text, i)
    /\ i = 1 \/ ~IsWordChar(h[i - 1])
    /\ i + Len(text) > Len(h) \/ ~IsWordChar(h[i + Len(text)])

\* find_col(needles): the first header that holds one of the needles, -1 for
\* None
find_col(ch, needles) ==
  IF \E i \in 1..Len(ch) : \E n \in needles : Contains(ch[i], n)
  THEN MinOf({i \in 1..Len(ch) : \E n \in needles : Contains(ch[i], n)}) - 1
  ELSE -1

\* find_col_rx(patterns) for patterns that are words between \b.  A
\* canonical header has single spaces and a space on both sides of a slash,
\* so \s+ matches one space and \s* one space or nothing.
find_col_rx(ch, words) ==
  IF \E i \in 1..Len(ch) : \E w \in words : HasWord(ch[i], w)
  THEN MinOf({i \in 1..Len(ch) : \E w \in words : HasWord(ch[i], w)}) - 1
  ELSE -1

\* the columns of a driver table
DriverColumns(headers) ==
  CHOOSE res \in
    { [ name_idx    |-> find_col_rx(ch, { <<"d","r","i","v","e","r"," ","/"," ","s","c","h","e","d","u","l","e","r"," ","n","a","m","e">>, <<"d","r","i","v","e","r"," ","/"," ","s","c","h","e","d","u","l","e","r","n","a","m","e">>,
                                          <<"d","r","i","v","e","r"," ","n","a","m","e">>, <<"s","c","h","e","d","u","l","e","r"," ","n","a","m","e">>, <<"n","a","m","e">> }),
        tlif_d_idx  |-> find_col(ch, { <<"d","r","i","v","e","r"," ","t","l","i","f">> }),
        tlif_s_idx  |-> find_col(ch, { <<"s","c","h","e","d","u","l","e","r"," ","t","l","i","f">> }),
        medical_idx |-> find_col(ch, { <<"m","e","d","i","c","a","l">>, <<"e","x","p","i","r","y">> }),
        roster_idx  |-> find_col_rx(ch, { <<"r","o","s","t","e","r">>, <<"s","a","f","e"," ","d","r","i","v","i","n","g"," ","p","l","a","n">>, <<"s","c","h","e","d","u","l","e">> }),
        fit_idx     |-> find_col(ch, { <<"f","i","t"," ","f","o","r"," ","d","u","t","y">> }),
        diary_idx   |-> find_col(ch, { <<"w","o","r","k"," ","d","i","a","r","y">>, <<"e","l","e","c","t","r","o","n","i","c"," ","w","o","r","k"," ","d","i","a","r","y">>,
                                       <<"p","a","g","e"," ","n","u","m","b","e","r","s">> }) ] :
      ch \in { [i \in 1..Len(headers) |-> _canon_header(headers[i])] } } : TRUE

\* re.search(r"[0-9/-]", s) -- a digit, a slash or a hyphen; the pattern also
\* takes the en dash, which the strings of the model do not hold
HasDateChar(s) == \E i \in 1..Len(s) : IsDigit(s[i]) \/ s[i] \in {"/", "-"}

\* _smart_space(str(row[idx]).strip()) when the column is there and the row
\* reaches it, else absent
DriverField(d, key, row, idx) ==
  IF idx >= 0 /\ idx < Len(row) THEN Put(d, key, _smart_space(Strip(row[idx + 1]))) ELSE d

\* the roster of the detected column, if it is date-like and not the name
RosterField(d, row, idx) ==
  IF idx >= 0 /\ idx < Len(row)
  THEN CHOOSE res \in
         { IF raw_roster # <<>> /\ HasDateChar(raw_roster) /\ ToLower(raw_roster) # ToLower(d["name"])
           THEN Put(d, "roster_schedule", raw_roster) ELSE d :
           raw_roster \in { _smart_space(Strip(row[idx + 1])) } } : TRUE
  ELSE d

\* one round of the row loop.  ds is [drivers, s, bound, stop]: s is the
\* local variable of the fallback scan, bound tells whether it has been
\* assigned, stop is "break" after the break and "raise" after the read of
\* the unassigned s.  The scan leaves in s the last cell that is not in the
\* name column; the test after it sits outside the scan, so its break ends
\* the row loop before the driver is appended.
DriverRow(ds, row, cols) ==
  IF ds.stop # "" \/ row = <<>> THEN ds
  ELSE CHOOSE res \in
    { IF name = <<>> THEN ds
      ELSE CHOOSE r \in
        { IF "roster_schedule" \in DOMAIN d
          THEN [ds EXCEPT !.drivers = Append(@,
                  DriverField(DriverField(d, "fit_for_duty", row, cols.fit_idx),
                              "work_diary", row, cols.diary_idx))]
          ELSE CHOOSE q \in
            { IF ~scan.bound THEN [ds EXCEPT !.stop = "raise"]
              ELSE IF scan.s # <<>> /\ HasDateChar(scan.s) /\ ToLower(scan.s) # ToLower(name)
              THEN [ds EXCEPT !.s = scan.s, !.bound = TRUE, !.stop = "break"]
              ELSE [ds EXCEPT !.s = scan.s, !.bound = TRUE,
                              !.drivers = Append(@,
                                DriverField(DriverField(d, "fit_for_duty", row, cols.fit_idx),
                                            "work_diary", row, cols.diary_idx))] :
              scan \in { IF \E j \in 1..Len(row) : j - 1 # cols.name_idx
                         THEN [s |-> _smart_space(Strip(row[
                                       MaxOf({j \in 1..Len(row) : j - 1 # cols.name_idx})])),
                               bound |-> TRUE]
                         ELSE [s |-> ds.s, bound |-> ds.bound] } } : TRUE :
          d \in { RosterField(
                    DriverField(
                      DriverField(
                        DriverField(("name" :> name), "driver_tlif", row, cols.tlif_d_idx),
                        "scheduler_tlif", row, cols.tlif_s_idx),
                      "medical_expiry", row, cols.medical_idx),
                    row, cols.roster_idx) } } : TRUE :
      name \in { IF cols.name_idx >= 0 /\ cols.name_idx < Len(row)
                 THEN _smart_space(Strip(row[cols.name_idx + 1])) ELSE <<>> } } : TRUE

RECURSIVE DriverRows(_, _, _, _)
DriverRows(ds, rows, i, cols) ==
  IF i > Len(rows) THEN ds
  ELSE CHOOSE res \in
         { DriverRows(d2, rows, i + 1, cols) : d2 \in {DriverRow(ds, rows[i], cols)} } : TRUE

\* _extract_driver_table: the drivers of the rows go to
\* extracted["drivers_detailed"] if there is any; an UnboundLocalError leaves
\* the method before that
_extract_driver_table(headers, data_rows, st) ==
  CHOOSE res \in
    { IF ds.stop = "raise" THEN [st EXCEPT !.raised = "UnboundLocalError"]
      ELSE IF ds.drivers # <<>> THEN [st EXCEPT !.ex = Put(@, "drivers_detailed", ds.drivers)]
      ELSE st :
      ds \in { DriverRows([drivers |-> <<>>, s |-> <<>>, bound |-> FALSE, stop |-> ""],
                          data_rows, 1, DriverColumns(headers)) } } : TRUE

\* the header tests of the tables between the operator table and the driver
\* table
_is_attendance_table(headers) == Contains(HeaderText(headers), <<"a","t","t","e","n","d","a","n","c","e">>)
_is_vehicle_summary_table(headers) ==
  \E t \in { <<"p","o","w","e","r","e","d"," ","v","e","h","i","c","l","e","s">>, <<"t","r","a","i","l","i","n","g"," ","v","e","h","i","c","l","e","s">>, <<"d","r","i","v","e","r","s"," ","i","n"," ","b","f","m">> } :
    Contains(HeaderText(headers), t)
_is_driver_table(headers) ==
  \E t \in { <<"d","r","i","v","e","r">>, <<"s","c","h","e","d","u","l","e","r">>, <<"t","l","i","f">>, <<"m","e","d","i","c","a","l">> } :
    Contains(HeaderText(headers), t)

\* one table of _extract_table_data.  An attendance, vehicle summary or
\* management table only writes keys of "extracted" that feed sections
\* outside the modelled DOCX maps.
TableStep(st, table) ==
  IF table.data = <<>> THEN st
  ELSE CHOOSE res \in
         { IF \/ _is_vehicle_registration_table(table.headers)
              \/ _is_vehicle_registration_table(collapsed[1])
           THEN _extract_vehicle_registration_table(collapsed[1], collapsed[2], st)
           ELSE IF _is_audit_info_table(table.headers)
           THEN [st EXCEPT !.ex = _extract_audit_info_table(table.data, st.ex)]
           ELSE IF _is_operator_info_table(table.headers)
           THEN [st EXCEPT !.ex = _extract_operator_info_table(table.data, st.ex)]
           ELSE IF _is_attendance_table(table.headers) THEN st
           ELSE IF _is_vehicle_summary_table(table.headers) THEN st
           ELSE IF _is_driver_table(table.headers)
           THEN _extract_driver_table(table.headers, table.data, st)
           ELSE st :
           collapsed \in {_collapse_multiline_headers(table.headers, table.data)} } : TRUE

RECURSIVE _extract_table_data(_, _, _)
_extract_table_data(tables, i, st) ==
  IF i > Len(tables) \/ st.raised # "" THEN st
  ELSE CHOOSE res \in
         { _extract_table_data(tables, i + 1, s2) : s2 \in {TableStep(st, tables[i])} } : TRUE

\* LABEL_INDEX["Audit Declaration dates"]["Audit was conducted on"]["alts"]
AuditConductedAlts == {<<"A","u","d","i","t"," ","w","a","s"," ","c","o","n","d","u","c","t","e","d"," ","o","n">>}

\* LABEL_INDEX["Audit Information"] without "expiry Date:", each label with
\* the field of extracted["audit_info"] that the lookup loop assigns
AuditInformationIndex ==
  << [alts |-> {<<"D","a","t","e"," ","o","f"," ","A","u","d","i","t">>}, field |-> "date_of_audit"],
     [alts |-> {<<"L","o","c","a","t","i","o","n"," ","o","f"," ","a","u","d","i","t">>, <<"L","o","c","a","t","i","o","n">>}, field |-> "location"],
     [alts |-> {<<"A","u","d","i","t","o","r"," ","n","a","m","e">>, <<"A","u","d","i","t","o","r">>}, field |-> "auditor_name"],
     [alts |-> {<<"A","u","d","i","t"," ","M","a","t","r","i","x"," ","I","d","e","n","t","i","f","i","e","r"," ","(","N","a","m","e"," ","o","r"," ","N","u","m","b","e","r",")">>, <<"A","u","d","i","t"," ","M","a","t","r","i","x"," ","I","d","e","n","t","i","f","i","e","r">>},
      field |-> "matrix_id"],
     [alts |-> {<<"A","u","d","i","t","o","r"," ","E","x","e","m","p","l","a","r"," ","G","l","o","b","a","l"," ","R","e","g"," ","N","o",".">>}, field |-> "none"],
     [alts |-> {<<"N","H","V","R"," ","A","u","d","i","t","o","r"," ","R","e","g","i","s","t","r","a","t","i","o","n"," ","N","u","m","b","e","r">>}, field |-> "none"] >>

\* LABEL_INDEX["Operator Information"], each label with the field of
\* extracted["operator_info"] that the lookup loop assigns
OperatorInformationIndex ==
  << [alts |-> {<<"O","p","e","r","a","t","o","r"," ","n","a","m","e"," ","(","L","e","g","a","l"," ","e","n","t","i","t","y",")">>, <<"O","p","e","r","a","t","o","r","'","s"," ","N","a","m","e"," ","(","l","e","g","a","l"," ","e","n","t","i","t","y",")">>},
      field |-> "name"],
     [alts |-> {<<"N","H","V","A","S"," ","A","c","c","r","e","d","i","t","a","t","i","o","n"," ","N","o","."," ","(","I","f"," ","a","p","p","l","i","c","a","b","l","e",")">>, <<"N","H","V","A","S"," ","A","c","c","r","e","d","i","t","a","t","i","o","n"," ","N","o",".">>},
      field |-> "none"],
     [alts |-> {<<"R","e","g","i","s","t","e","r","e","d"," ","t","r","a","d","i","n","g"," ","n","a","m","e","/","s">>, <<"T","r","a","d","i","n","g"," ","n","a","m","e","/","s">>}, field |-> "trading_name"],
     [alts |-> {<<"A","u","s","t","r","a","l","i","a","n"," ","C","o","m","p","a","n","y"," ","N","u","m","b","e","r">>, <<"A","C","N">>}, field |-> "acn"],
     [alts |-> {<<"N","H","V","A","S"," ","M","a","n","u","a","l"," ","(","P","o","l","i","c","i","e","s"," ","a","n","d"," ","P","r","o","c","e","d","u","r","e","s",")"," ","d","e","v","e","l","o","p","e","d"," ","b","y">>,
                <<"N","H","V","A","S"," ","M","a","n","u","a","l"," ","d","e","v","e","l","o","p","e","d"," ","b","y">>, <<"M","a","n","u","a","l"," ","d","e","v","e","l","o","p","e","d"," ","b","y">>},
      field |-> "manual"] >>

\* the body of the two lookup loops for a label whose table value is val
LabelStep(extracted, key, field, val) ==
  IF val = <<>> THEN extracted
  ELSE IF key = "audit_info"
  THEN Put(extracted, key, PutField(Get(extracted, key, <<>>), field, val))
  ELSE IF field = "none" \/ (field = "name" /\ ~_looks_like_company(val)) THEN extracted
  ELSE IF field = "manual" /\ ~_looks_like_manual_value(val)
  THEN Put(extracted, key, Get(extracted, key, <<>>))
  ELSE Put(extracted, key, Put(Get(extracted, key, <<>>), field, val))

RECURSIVE LabelLoop(_, _, _, _, _)
LabelLoop(extracted, tables, key, index, i) ==
  IF i > Len(index) THEN extracted
  ELSE CHOOSE res \in
         { LabelLoop(e2, tables, key, index, i + 1) :
           e2 \in { LabelStep(extracted, key, index[i].field, val) :
                    val \in {_find_table_value(tables, index[i].alts)} } } : TRUE

\* ------------------------------------------------------------------------
\* Text parsing
\* ------------------------------------------------------------------------
\* r"([0-9]+(?:st|nd|rd|th)?\s+[A-Za-z]+\s+\d{4})" (ignoring case) matched at
\* i: the last position of the match, or 0
LongDateEnd(s, i) ==
  IF ~(i <= Len(s) /\ IsDigit(s[i])) THEN 0
  ELSE LET d  == RunEnd(s, i, "digit")
           a  == IF d + 2 <= Len(s) /\ <<LowerChar(s[d + 1]), LowerChar(s[d + 2])>> \in OrdinalSuffixes
                    /\ d + 3 <= Len(s) /\ IsSpace(s[d + 3])
                 THEN d + 2 ELSE d
           w1 == RunEnd(s, a + 1, "space")
           l  == RunEnd(s, w1 + 1, "alpha")
           w2 == RunEnd(s, l + 1, "space")
       IN IF /\ w1 > a /\ l > w1 /\ w2 > l
             /\ w2 + 4 <= Len(s)
             /\ \A k \in (w2 + 1)..(w2 + 4) : IsDigit(s[k])
          THEN w2 + 4 ELSE 0

RECURSIVE ChunksEnd(_, _, _)
\* the literal chunks, each followed by \s+, matched at i ignoring case: the
\* position after the last white space, or 0
ChunksEnd(s, i, chunks) ==
  IF chunks = <<>> THEN i
  ELSE IF MatchAt(ToLower(s), chunks[1], i)
          /\ RunEnd(s, i + Len(chunks[1]), "space") >= i + Len(chunks[1])
       THEN ChunksEnd(s, RunEnd(s, i + Len(chunks[1]), "space") + 1, Tail(chunks))
       ELSE 0

\* the three patterns of the "audit conducted date" loop, in order
AuditDatePatterns ==
  << <<<<"a","u","d","i","t"," ","w","a","s"," ","c","o","n","d","u","c","t","e","d"," ","o","n">>>>, <<<<"d","a","t","e">>>>, <<<<"a","u","d","i","t","o","r"," ","s","i","g","n","a","t","u","r","e">>, <<"d","a","t","e">>>> >>

\* re.search(pattern, s, re.I).group(1), or <<>> when there is no match
DateAfter(s, chunks) ==
  CHOOSE res \in
    { IF hits = {} THEN <<>>
      ELSE SubSeq(s, ChunksEnd(s, MinOf(hits), chunks),
                  LongDateEnd(s, ChunksEnd(s, MinOf(hits), chunks))) :
      hits \in { { i \in 1..Len(s) :
                     /\ ChunksEnd(s, i, chunks) > 0
                     /\ LongDateEnd(s, ChunksEnd(s, i, chunks)) > 0 } } } : TRUE

\* the group of the first of the three patterns that matches, or <<>>
AuditDateInText(all_text) ==
  FirstNonEmpty([p \in 1..Len(AuditDatePatterns) |-> DateAfter(all_text, AuditDatePatterns[p])])

\* _extract_text_content, the audit conducted date.  (Its other patterns set
\* business_summary, print_accreditation_name and vehicle_summary, which
\* feed sections outside the modelled DOCX maps.)
_extract_text_content(text_pages, extracted) ==
  CHOOSE res \in
    { IF d = <<>> THEN extracted
      ELSE Put(extracted, "audit_conducted_date", _smart_space(Strip(d))) :
      d \in { AuditDateInText(all_text) :
              all_text \in {_smart_space(JoinWith([k \in 1..Len(text_pages) |->
                                                    text_pages[k].text], <<" ">>))} } } : TRUE

RECURSIVE SplitLines(_, _, _)
\* the pieces of s between line feeds (cur is the open piece)
SplitLines(s, i, cur) ==
  IF i > Len(s) THEN <<cur>>
  ELSE IF s[i] = "\n" THEN <<cur>> \o SplitLines(s, i + 1, <<>>)
  ELSE SplitLines(s, i + 1, Append(cur, s[i]))

RECURSIVE TextLines(_)
\* re.split(r"\s*\n\s*", text) of every page, each line cleaned by
\* _smart_space, blank lines dropped
TextLines(text_pages) ==
  IF text_pages = <<>> THEN <<>>
  ELSE SelectSeq([k \in 1..Len(SplitLines(text_pages[1].text, 1, <<>>)) |->
                    _smart_space(SplitLines(text_pages[1].text, 1, <<>>)[k])],
                 LAMBDA ln : ln # <<>>)
       \o TextLines(Tail(text_pages))

\* ln.split(reg, 1)[1]: what follows the first occurrence of reg in ln
AfterFirst(ln, reg) ==
  SubSeq(ln, MinOf({i \in 1..Len(ln) : MatchAt(ln, reg, i)}) + Len(reg), Len(ln))

\* dates[k] if len(dates) > k else ""   (k counted from 0)
DateOr(dates, k) == IF Len(dates) > k THEN dates[k + 1] ELSE <<>>
\* a or b on strings
OrStr(a, b) == IF a # <<>> THEN a ELSE b

\* "Yes" / "No" / "" from the words of the line
YesNoOf(ln) ==
  IF Contains(<<" ">> \o ToLower(ln) \o <<" ">>, <<" ","y","e","s"," ">>) THEN <<"Y","e","s">>
  ELSE IF Contains(<<" ">> \o ToLower(ln) \o <<" ">>, <<" ","n","o"," ">>) THEN <<"N","o">>
  ELSE <<>>

\* the row that one text line with the plate reg yields
TextRow(ln, reg, dates) ==
  IF RfSearch(ln) # <<>> \/ Contains(ToLower(ln), <<"s","u","s","p","e","n","s","i","o","n">>)
  THEN [ registration |-> reg,
         sub_contractor |-> YesNoOf(ln),
         sub_comp |-> YesNoOf(ln),
         weight_verification |-> DateOr(dates, 0),
         rfs_certification |->
           OrStr(SelectChars(ToUpper(RfSearch(ln)), {" "}),
                 IF Contains(ToLower(ln), <<"n","/","a">>) THEN <<"N","/","A">> ELSE <<>>),
         suspension_maintenance |-> DateOr(dates, 1),
         trip_records |-> DateOr(dates, 2),
         fault_reporting_suspension |-> DateOr(dates, 3),
         section |-> <<"m","a","s","s">> ]
  ELSE [ registration |-> reg,
         roadworthiness |-> DateOr(dates, 0),
         maintenance_records |-> OrStr(DateOr(dates, 1), DateOr(dates, 2)),
         daily_checks |-> DateOr(dates, 2),
         fault_recording |-> OrStr(DateOr(dates, 3), DateOr(dates, 4)),
         fault_repair |-> OrStr(DateOr(dates, 4), DateOr(dates, 3)),
         section |-> <<"m","a","i","n","t","e","n","a","n","c","e">> ]

\* the rows of the text lines that hold a plate, in line order
TextRows(lines) ==
  SelectSeq(
    [k \in 1..Len(lines) |->
       CHOOSE row \in
         { IF plates = <<>> THEN <<>>
           ELSE TextRow(lines[k], plates[1],
                        extract_date_tokens(_smart_space(AfterFirst(lines[k], plates[1])))) :
           plates \in {SelectSeq(Tokens(lines[k]), looks_like_plate)} } : TRUE],
    LAMBDA row : row # <<>>)

\* _extract_vehicle_tables_from_text: the maintenance rows, then the mass
\* rows, are appended to extracted["vehicles"], which always exists afterwards
_extract_vehicle_tables_from_text(text_pages, extracted) ==
  CHOOSE res \in
    { Put(extracted, "vehicles",
          Get(extracted, "vehicles", <<>>)
            \o SelectSeq(rows, LAMBDA r : "roadworthiness" \in DOMAIN r)
            \o SelectSeq(rows, LAMBDA r : "roadworthiness" \notin DOMAIN r)) :
      rows \in {TextRows(TextLines(text_pages))} } : TRUE

\* ------------------------------------------------------------------------
\* extract_from_pdf_comprehensive.  pdf_data is pdf_data["extracted_data"]:
\* [all_tables, all_text_content, audit_information, operator_information].
\* ------------------------------------------------------------------------
\* the accumulator left as the previous call has filled it
vehicle_by_reg_kept(acc) == acc
\* self._vehicle_by_reg.clear()
vehicle_by_reg_clear(acc) == <<>>

HasDigit(s) == \E i \in 1..Len(s) : IsDigit(s[i])

\* "Audit was conducted on" taken from the tables, unless it is the
\* placeholder "Date" or has no digit
AuditConductedStep(extracted, tables) ==
  CHOOSE res \in
    { IF awd # <<>> /\ HasDigit(awd) /\ ToLower(awd) # <<"d","a","t","e">>
      THEN Put(extracted, "audit_conducted_date", awd) ELSE extracted :
      awd \in {_smart_space(_find_table_value(tables, AuditConductedAlts))} } : TRUE

\* extracted["audit_info"] from extracted_data["audit_information"]
AuditInfoOf(audit_info) ==
  [ date_of_audit |-> _smart_space(Get(audit_info, "DateofAudit", <<>>)),
    location      |-> _smart_space(Get(audit_info, "Locationofaudit", <<>>)),
    auditor_name  |-> _smart_space(Get(audit_info, "Auditorname", <<>>)),
    matrix_id     |-> _smart_space(Get(audit_info, "AuditMatrixIdentifier (Name or Number)", <<>>)) ]

\* extracted["operator_info"] from extracted_data["operator_information"]
OperatorInfoOf(operator_info) ==
  [ name             |-> <<>>,
    trading_name     |-> _smart_space(Get(operator_info, "trading_name", <<>>)),
    acn              |-> _smart_space(Get(operator_info, "company_number", <<>>)),
    manual           |-> _smart_space(Get(operator_info, "nhvas_accreditation", <<>>)),
    business_address |-> _smart_space(Get(operator_info, "business_address", <<>>)),
    postal_address   |-> _smart_space(Get(operator_info, "postal_address", <<>>)),
    email            |-> Get(operator_info, "email", <<>>),
    phone            |-> _smart_space(Get(operator_info, "phone", <<>>)) ]

\* steps 1 and 2: the curated dicts first, then the lookup by label
InfoSteps(pdf_data, extracted) ==
  LET e1 == IF pdf_data.audit_information # <<>>
            THEN Put(extracted, "audit_info", AuditInfoOf(pdf_data.audit_information))
            ELSE extracted
      e2 == LabelLoop(e1, pdf_data.all_tables, "audit_info", AuditInformationIndex, 1)
  IN CHOOSE res \in
       { LabelLoop(e3, pdf_data.all_tables, "operator_info", OperatorInformationIndex, 1) :
         e3 \in { IF pdf_data.operator_information # <<>>
                  THEN Put(e, "operator_info", OperatorInfoOf(pdf_data.operator_information))
                  ELSE e : e \in {e2} } } : TRUE

\* the steps of extract_from_pdf_comprehensive after the clear, which left
\* the accumulator as cleared.  The extraction is [ex |-> extracted, acc |->
\* self._vehicle_by_reg, raised |-> the exception that left the method, ""
\* when it returned].  (Steps 5 and 6 copy vehicle_registrations,
\* driver_records and the management details, which feed sections outside
\* the modelled DOCX maps.)
ExtractionSteps(pdf_data, cleared) ==
  CHOOSE res \in
    { IF st.raised # "" THEN st
      ELSE [ st EXCEPT !.ex = _extract_vehicle_tables_from_text(
                                pdf_data.all_text_content,
                                _extract_text_content(pdf_data.all_text_content, st.ex)) ] :
      st \in { _extract_table_data(pdf_data.all_tables, 1, s0) :
               s0 \in { [acc |-> cleared, ex |-> InfoSteps(pdf_data, e0), raised |-> ""] :
                        e0 \in {AuditConductedStep(<<>>, pdf_data.all_tables)} } } } : TRUE

\* ------------------------------------------------------------------------
\* build_vehicle_sections
\* ------------------------------------------------------------------------
\* v.get(k) is true: the key is there with a non-empty string
Truthy(v, k) == k \in DOMAIN v /\ v[k] # <<>>

MaintKeys ==
  <<"roadworthiness", "maintenance_records", "daily_checks", "fault_recording", "fault_repair">>
MassKeys ==
  <<"weight_verification", "rfs_certification", "suspension_maintenance", "trip_records",
    "fault_reporting_suspension">>

\* the six Maintenance arrays, one entry per row
MaintArrays(rows) ==
  [ l \in {"Registration Number", "Roadworthiness Certificates", "Maintenance Records",
           "Daily Checks", "Fault Recording/ Reporting", "Fault Repair"} |->
      [i \in 1..Len(rows) |->
         CASE l = "Registration Number" -> rows[i].registration
           [] l = "Roadworthiness Certificates" -> rows[i].roadworthiness
           [] l = "Maintenance Records" -> rows[i].maintenance_records
           [] l = "Daily Checks" -> rows[i].daily_checks
           [] l = "Fault Recording/ Reporting" -> rows[i].fault_recording
           [] l = "Fault Repair" -> rows[i].fault_repair] ]

\* the Maintenance arrays from the rows recorded while the tables were
\* parsed: the plate is spaced, a blank value becomes ""
MaintFromRows(rows) ==
  MaintArrays([i \in 1..Len(rows) |->
                 [ registration |-> _smart_space(Get(rows[i], "registration", <<>>)),
                   roadworthiness |-> _nz(Get(rows[i], "roadworthiness", <<>>)),
                   maintenance_records |-> _nz(Get(rows[i], "maintenance_records", <<>>)),
                   daily_checks |-> _nz(Get(rows[i], "daily_checks", <<>>)),
                   fault_recording |-> _nz(Get(rows[i], "fault_recording", <<>>)),
                   fault_repair |-> _nz(Get(rows[i], "fault_repair", <<>>)) ]])

\* the fallback: the vehicles seen in a maintenance table, with the fallbacks
\* between neighbouring columns
MaintFallbackRow(v) ==
  [ registration |-> _smart_space(v.registration),
    roadworthiness |-> _nz(Get(v, "roadworthiness", <<>>)),
    maintenance_records |-> OrStr(_nz(Get(v, "maintenance_records", <<>>)),
                                  _nz(Get(v, "daily_checks", <<>>))),
    daily_checks |-> _nz(Get(v, "daily_checks", <<>>)),
    fault_recording |-> OrStr(_nz(Get(v, "fault_recording", <<>>)),
                              _nz(Get(v, "fault_repair", <<>>))),
    fault_repair |-> OrStr(_nz(Get(v, "fault_repair", <<>>)),
                           _nz(Get(v, "fault_recording", <<>>))) ]

MaintFromVehicles(vehicles) ==
  CHOOSE res \in
    { MaintArrays([i \in 1..Len(sel) |-> MaintFallbackRow(sel[i])]) :
      sel \in { SelectSeq(vehicles,
                  LAMBDA v : /\ Truthy(v, "registration")
                             /\ \/ "seen_in_maintenance" \in DOMAIN v
                                \/ \E k \in 1..Len(MaintKeys) : Truthy(v, MaintKeys[k])) } } : TRUE

MassFromVehicles(vehicles) ==
  CHOOSE res \in
    { [ l \in {"Registration Number", "Weight Verification Records",
               "RFS Suspension Certification #", "Suspension System Maintenance",
               "Trip Records", "Fault Recording/ Reporting on Suspension System"} |->
          [i \in 1..Len(sel) |->
             CASE l = "Registration Number" -> _smart_space(sel[i].registration)
               [] l = "Weight Verification Records" -> _nz(Get(sel[i], "weight_verification", <<>>))
               [] l = "RFS Suspension Certification #" -> _nz(Get(sel[i], "rfs_certification", <<>>))
               [] l = "Suspension System Maintenance" ->
                    _nz(Get(sel[i], "suspension_maintenance", <<>>))
               [] l = "Trip Records" -> _nz(Get(sel[i], "trip_records", <<>>))
               [] l = "Fault Recording/ Reporting on Suspension System" ->
                    _nz(Get(sel[i], "fault_reporting_suspension", <<>>))] ] :
      sel \in { SelectSeq(vehicles,
                  LAMBDA v : /\ Truthy(v, "registration")
                             /\ \/ "seen_in_mass" \in DOMAIN v
                                \/ \E k \in 1..Len(MassKeys) : Truthy(v, MassKeys[k])) } } : TRUE

build_vehicle_sections(extracted) ==
  [ s \in {"Vehicle Registration Numbers Maintenance", "Vehicle Registration Numbers Mass"} |->
      IF s = "Vehicle Registration Numbers Mass"
      THEN MassFromVehicles(Get(extracted, "vehicles", <<>>))
      ELSE IF Get(extracted, "_maint_rows", <<>>) # <<>>
      THEN MaintFromRows(extracted["_maint_rows"])
      ELSE MaintFromVehicles(Get(extracted, "vehicles", <<>>)) ]

\* ------------------------------------------------------------------------
\* map_to_docx_structure.  A DOCX map is a function section -> label -> list
\* of strings.  The blocks of the source that are guarded by a section other
\* than the five below (contact details, attendance, summaries, drivers,
\* print accreditation name, operator declaration, paragraphs) leave a map
\* of these five sections unchanged.
\* ------------------------------------------------------------------------
\* <<field of the extraction, DOCX label>> of the Audit Information block
AuditInformationFields ==
  { <<"date_of_audit", "Date of Audit">>,
    <<"location", "Location of audit">>,
    <<"auditor_name", "Auditor name">>,
    <<"matrix_id", "Audit Matrix Identifier (Name or Number)">> }

\* <<field of the extraction, DOCX label>> of the Operator Information block
OperatorInformationFields ==
  { <<"name", "Operator name (Legal entity)">>,
    <<"trading_name", "Registered trading name/s">>,
    <<"acn", "Australian Company Number">>,
    <<"manual", "NHVAS Manual (Policies and Procedures) developed by">> }

\* merged[section][label] = [_smart_space(d[field])] for every field of d
\* that is not empty (the operator name only if it looks like a company)
FieldBlock(merged, section, d, fields) ==
  CHOOSE res \in
    { [merged EXCEPT ![section] =
         Update(@, [l \in {p[2] : p \in set} |->
                      <<_smart_space(d[(CHOOSE p \in set : p[2] = l)[1]])>>])] :
      set \in { { p \in fields :
                    /\ Truthy(d, p[1])
                    /\ (p[1] = "name" => _looks_like_company(d[p[1]])) } } } : TRUE

AuditInformationBlock(merged, pdf_extracted) ==
  IF "audit_info" \in DOMAIN pdf_extracted /\ "Audit Information" \in DOMAIN merged
  THEN FieldBlock(merged, "Audit Information", pdf_extracted["audit_info"],
                  AuditInformationFields)
  ELSE merged

OperatorInformationBlock(merged, pdf_extracted) ==
  IF "operator_info" \in DOMAIN pdf_extracted /\ "Operator Information" \in DOMAIN merged
  THEN FieldBlock(merged, "Operator Information", pdf_extracted["operator_info"],
                  OperatorInformationFields)
  ELSE merged

\* merged[section].update(sections[section]) for the two vehicle sections
VehicleSectionsBlock(merged, pdf_extracted) ==
  CHOOSE res \in
    { [s \in DOMAIN merged |->
         IF s \in DOMAIN sections THEN Update(merged[s], sections[s]) ELSE merged[s]] :
      sections \in {build_vehicle_sections(pdf_extracted)} } : TRUE

\* the Driver / Scheduler block: three arrays with one entry per driver
DriverSection == "Driver / Scheduler Records Examined"
\* a driver block that does not ask whether the DOCX map has the section
DriversBlockUnguarded(merged, pdf_extracted) ==
  IF "drivers_detailed" \in DOMAIN pdf_extracted
  THEN Put(merged, DriverSection,
           Update(Get(merged, DriverSection, <<>>),
                  ( "Fit for Duty Statement Completed (Yes/No)" :>
                      [k \in 1..Len(pdf_extracted["drivers_detailed"]) |->
                         Get(pdf_extracted["drivers_detailed"][k], "fit_for_duty", <<>>)] )))
  ELSE merged

DriversBlock(merged, pdf_extracted) ==
  IF "drivers_detailed" \in DOMAIN pdf_extracted /\ DriverSection \in DOMAIN merged
  THEN CHOOSE res \in
         { [merged EXCEPT ![DriverSection] =
              Update(@,
                ( "Roster / Schedule / Safe Driving Plan (Date Range)" :>
                    [k \in 1..Len(drivers) |-> Get(drivers[k], "roster_schedule", <<>>)] ) @@
                ( "Fit for Duty Statement Completed (Yes/No)" :>
                    [k \in 1..Len(drivers) |-> Get(drivers[k], "fit_for_duty", <<>>)] ) @@
                ( "Work Diary Pages (Page Numbers) Electronic Work Diary Records (Date Range)" :>
                    [k \in 1..Len(drivers) |-> Get(drivers[k], "work_diary", <<>>)] ))] :
           drivers \in {pdf_extracted["drivers_detailed"]} } : TRUE
  ELSE merged

\* a candidate that has text but is accepted whatever the text is
any_text(s) == s # <<>>
\* _real_date: has a digit and is not the word "date"
_real_date(s) == s # <<>> /\ HasDigit(s) /\ ToLower(Strip(s)) # <<"d","a","t","e">>

\* the date that the Audit Declaration block takes: the explicit one, else
\* the date of audit
AuditDateCandidate(pdf_extracted) ==
  IF _real_date(Get(pdf_extracted, "audit_conducted_date", <<>>))
  THEN pdf_extracted["audit_conducted_date"]
  ELSE Get(Get(pdf_extracted, "audit_info", <<>>), "date_of_audit", <<>>)

AuditDeclarationBlock(merged, pdf_extracted) ==
  IF "Audit Declaration dates" \in DOMAIN merged
  THEN CHOOSE res \in
         { IF _real_date(val)
           THEN [merged EXCEPT !["Audit Declaration dates"] =
                   Put(@, "Audit was conducted on", <<_smart_space(val)>>)]
           ELSE merged :
           val \in {AuditDateCandidate(pdf_extracted)} } : TRUE
  ELSE merged

\* the first header that satisfies a predicate of
\* _force_fill_maintenance_from_tables, or None
Fidx(hdrs, what) ==
  IdxOf(hdrs, CASE what = "reg" -> {<<"r","e","g","i","s","t","r","a","t","i","o","n">>}
                [] what = "rw"  -> {<<"r","o","a","d","w","o","r","t","h","i","n","e","s","s">>}
                [] what = "mr"  -> {<<"m","a","i","n","t","e","n","a","n","c","e">>, <<"r","e","c","o","r","d">>}
                [] what = "dc"  -> {<<"d","a","i","l","y">>, <<"c","h","e","c","k">>}
                [] what = "rp"  -> {<<"f","a","u","l","t">>, <<"r","e","p","a","i","r">>})

\* fr_i: "fault" and "record" in the header and "suspension" not in it
FidxFaultRecording(hdrs) ==
  CHOOSE res \in
    { IF hits = {} THEN -1 ELSE MinOf(hits) - 1 :
      hits \in { { i \in 1..Len(hdrs) :
                     /\ Contains(hdrs[i], <<"f","a","u","l","t">>) /\ Contains(hdrs[i], <<"r","e","c","o","r","d">>)
                     /\ ~Contains(hdrs[i], <<"s","u","s","p","e","n","s","i","o","n">>) } } } : TRUE

\* the headers name a maintenance table
IsMaintenanceHeaders(hdrs) ==
  /\ hdrs # <<>>
  /\ \E txt \in {JoinWith(hdrs, <<" ">>)} :
       /\ Contains(txt, <<"r","e","g","i","s","t","r","a","t","i","o","n">>)
       /\ \E k \in { <<"m","a","i","n","t","e","n","a","n","c","e"," ","r","e","c","o","r","d","s">>, <<"d","a","i","l","y">>, <<"f","a","u","l","t"," ","r","e","c","o","r","d","i","n","g">>,
                     <<"f","a","u","l","t"," ","r","e","p","a","i","r">>, <<"r","o","a","d","w","o","r","t","h","i","n","e","s","s">> } : Contains(txt, k)

\* the rows of one maintenance table that hold a plate, with the fallbacks
\* between neighbouring columns
ForceRows(hdrs, data) ==
  CHOOSE res \in
    { SelectSeq(
        [k \in 1..Len(data) |->
           [ registration |-> _smart_space(Cell(data[k], reg_i)),
             roadworthiness |-> _nz(Cell(data[k], Fidx(hdrs, "rw"))),
             maintenance_records |-> OrStr(_nz(Cell(data[k], Fidx(hdrs, "mr"))),
                                           _nz(Cell(data[k], Fidx(hdrs, "dc")))),
             daily_checks |-> _nz(Cell(data[k], Fidx(hdrs, "dc"))),
             fault_recording |-> OrStr(_nz(Cell(data[k], fr_i)),
                                       _nz(Cell(data[k], Fidx(hdrs, "rp")))),
             fault_repair |-> OrStr(_nz(Cell(data[k], Fidx(hdrs, "rp"))),
                                    _nz(Cell(data[k], fr_i))) ]],
        LAMBDA row : row.registration # <<>> /\ looks_like_plate(row.registration)) :
      reg_i \in {Fidx(hdrs, "reg")}, fr_i \in {FidxFaultRecording(hdrs)} } : TRUE

RECURSIVE ForceRowsOfTables(_)
ForceRowsOfTables(tables) ==
  IF tables = <<>> THEN <<>>
  ELSE CHOOSE res \in
         { (IF IsMaintenanceHeaders(hdrs) THEN ForceRows(hdrs, tables[1].data) ELSE <<>>)
             \o ForceRowsOfTables(Tail(tables)) :
           hdrs \in {[i \in 1..Len(tables[1].headers) |->
                       _canon_header(tables[1].headers[i])]} } : TRUE

\* a final pass that leaves the merged map as it is
final_pass_skipped(pdf_data, merged) == merged

\* a final pass that overwrites the registrations only
force_fill_registrations_only(pdf_data, merged) ==
  IF "Vehicle Registration Numbers Maintenance" \notin DOMAIN merged THEN merged
  ELSE CHOOSE res \in
         { IF rows = <<>> THEN merged
           ELSE [merged EXCEPT !["Vehicle Registration Numbers Maintenance"] =
                   Update(@, "Registration Number" :> MaintArrays(rows)["Registration Number"])] :
           rows \in {ForceRowsOfTables(pdf_data.all_tables)} } : TRUE

\* _force_fill_maintenance_from_tables: the Maintenance arrays are
\* overwritten by the rows of all maintenance tables, if there is any row
_force_fill_maintenance_from_tables(pdf_data, merged) ==
  IF "Vehicle Registration Numbers Maintenance" \notin DOMAIN merged THEN merged
  ELSE CHOOSE res \in
         { IF rows = <<>> THEN merged
           ELSE [merged EXCEPT !["Vehicle Registration Numbers Maintenance"] =
                   Update(@, MaintArrays(rows))] :
           rows \in {ForceRowsOfTables(pdf_data.all_tables)} } : TRUE

\* SUMMARY_SECTIONS: the header of a summary table and the section it fills
SUMMARY_SECTIONS ==
  << [header |-> <<"M","A","I","N","T","E","N","A","N","C","E"," ","M","A","N","A","G","E","M","E","N","T">>, section |-> "Maintenance Management Summary"],
     [header |-> <<"M","A","S","S"," ","M","A","N","A","G","E","M","E","N","T">>, section |-> "Mass Management Summary"],
     [header |-> <<"F","A","T","I","G","U","E"," ","M","A","N","A","G","E","M","E","N","T">>, section |-> "Fatigue Management Summary"] >>

\* normalize_std_label: parentheses go, whitespace is collapsed and stripped.
\* The pattern ^(Std\s*\d+\.\s*[^:]+?)\s*$ is matched against the stripped
\* text, so its group, stripped, is that text: both branches return it.
normalize_std_label(label) ==
  IF label = <<>> THEN <<>>
  ELSE Strip(CollapseSpaces(DropGroups(label, 1, "(", ")")))

\* the section of the first header that is a key of SUMMARY_SECTIONS, or ""
SummarySection(headers) ==
  CHOOSE res \in
    { IF hits = {} THEN ""
      ELSE (CHOOSE s \in Range(SUMMARY_SECTIONS) : s.header = headers[MinOf(hits)]).section :
      hits \in {{i \in 1..Len(headers) :
                   \E s \in Range(SUMMARY_SECTIONS) : s.header = headers[i]}} } : TRUE

\* out[section_name][left_norm] = merged_text: std_map is the list of the
\* labels in the order of their first row, each with its text
AddDetails(std_map, left_norm, right) ==
  IF \E k \in 1..Len(std_map) : std_map[k].key = left_norm
  THEN [k \in 1..Len(std_map) |->
          IF std_map[k].key = left_norm
          THEN [key |-> left_norm,
                text |-> IF std_map[k].text # <<>>
                         THEN Strip(std_map[k].text \o <<" ">> \o right)
                         ELSE Strip(right)]
          ELSE std_map[k]]
  ELSE Append(std_map, [key |-> left_norm, text |-> Strip(right)])

RECURSIVE SummaryRows(_, _, _)
\* the rows of one summary table: row[0] is the label, row[1] the details
SummaryRows(std_map, rows, k) ==
  IF k > Len(rows) THEN std_map
  ELSE CHOOSE res \in
         { SummaryRows(IF left_norm # <<>> /\ right # <<>>
                       THEN AddDetails(std_map, left_norm, right) ELSE std_map,
                       rows, k + 1) :
           left_norm \in {IF Len(rows[k]) >= 1 THEN normalize_std_label(rows[k][1]) ELSE <<>>},
           right \in {IF Len(rows[k]) >= 2 THEN rows[k][2] ELSE <<>>} } : TRUE

RECURSIVE SummaryTables(_, _, _)
\* the tables with a DETAILS header and a header of SUMMARY_SECTIONS
SummaryTables(out, tables, k) ==
  IF k > Len(tables) THEN out
  ELSE CHOOSE res \in
         { SummaryTables(
             IF <<"D","E","T","A","I","L","S">> \in Range(headers) /\ SummarySection(headers) # ""
             THEN [out EXCEPT ![SummarySection(headers)] = SummaryRows(@, tables[k].data, 1)]
             ELSE out,
             tables, k + 1) :
           headers \in {[i \in 1..Len(tables[k].headers) |->
                          ToUpper(Strip(CollapseSpaces(tables[k].headers[i])))]} } : TRUE

\* build_summary_maps: per section the labels with a text, each with the
\* value list [_smart_space(text)]
build_summary_maps(pdf_data) ==
  CHOOSE res \in
    { [sec \in DOMAIN out |->
         CHOOSE kept \in
           { [k \in 1..Len(filled) |->
                [key |-> filled[k].key, details_list |-> <<_smart_space(filled[k].text)>>]] :
             filled \in {SelectSeq(out[sec], LAMBDA e : e.text # <<>>)} } : TRUE] :
      out \in {SummaryTables([s \in {x.section : x \in Range(SUMMARY_SECTIONS)} |-> <<>>],
                             pdf_data.all_tables, 1)} } : TRUE

\* re.search(r"Std\s+(\d+)", key).group(1), or <<>> when the search fails
StdAt(key, i) ==
  /\ MatchAt(key, <<"S","t","d">>, i)
  /\ RunEnd(key, i + 3, "space") >= i + 3
  /\ RunEnd(key, RunEnd(key, i + 3, "space") + 1, "digit") > RunEnd(key, i + 3, "space")
StdNumber(key) ==
  IF \E i \in 1..Len(key) : StdAt(key, i)
  THEN CHOOSE res \in
         { SubSeq(key, e + 1, RunEnd(key, e + 1, "digit")) :
           e \in {RunEnd(key, MinOf({i \in 1..Len(key) : StdAt(key, i)}) + 3, "space")} } : TRUE
  ELSE <<>>

\* the labels of the two sides are the same text
SameText(detail_key, docx_key) == detail_key = docx_key

\* m1 and m2 and m1.group(1) == m2.group(1)
SameStd(detail_key, docx_key) ==
  /\ StdNumber(detail_key) # <<>>
  /\ StdNumber(docx_key) # <<>>
  /\ StdNumber(detail_key) = StdNumber(docx_key)

\* one entry of std_map: the label itself when the section has it, else the
\* first label of the section with the same number.  The sections of the
\* DOCX maps of the menu hold one label per number.
SetDetails(section, entry) ==
  IF entry.key \in DOMAIN section THEN [section EXCEPT ![entry.key] = entry.details_list]
  ELSE CHOOSE res \in
         { IF same = {} THEN section
           ELSE [section EXCEPT ![CHOOSE docx_key \in same : TRUE] = entry.details_list] :
           same \in {{docx_key \in DOMAIN section : SameStd(entry.key, docx_key)}} } : TRUE

RECURSIVE SetAllDetails(_, _, _)
SetAllDetails(section, std_map, k) ==
  IF k > Len(std_map) THEN section
  ELSE SetAllDetails(SetDetails(section, std_map[k]), std_map, k + 1)

\* the summary sections block of map_to_docx_structure
SummaryBlock(merged, pdf_data) ==
  CHOOSE res \in
    { [section_name \in DOMAIN merged |->
         IF section_name \in DOMAIN summary_maps /\ summary_maps[section_name] # <<>>
         THEN SetAllDetails(merged[section_name], summary_maps[section_name], 1)
         ELSE merged[section_name]] :
      summary_maps \in {build_summary_maps(pdf_data)} } : TRUE

\* the blocks of map_to_docx_structure before the final pass over the
\* maintenance tables.  The other blocks (contact details, attendance,
\* business and vehicle summaries, print accreditation name, operator
\* declaration, paragraphs) each ask for their section in the map first, and
\* no DOCX map of the menu holds one of these.
MergedBlocks(pdf_extracted, docx_data, pdf_data) ==
  CHOOSE res \in
    { AuditDeclarationBlock(DriversBlock(m4, pdf_extracted), pdf_extracted) :
      m4 \in { VehicleSectionsBlock(m3, pdf_extracted) :
        m3 \in { SummaryBlock(m2, pdf_data) :
          m2 \in { OperatorInformationBlock(m1, pdf_extracted) :
            m1 \in {AuditInformationBlock(docx_data, pdf_extracted)} } } } } : TRUE

\* map_to_docx_structure(pdf_extracted, docx_data, pdf_data)
map_to_docx_structure(pdf_extracted, docx_data, pdf_data) ==
  _force_fill_maintenance_from_tables(pdf_data, MergedBlocks(pdf_extracted, docx_data, pdf_data))

\* ------------------------------------------------------------------------
\* The merger as a state machine: one NHVASMerger at a time, called with one
\* DOCX map and with PDF data drawn from a menu.
\* ------------------------------------------------------------------------
MaxCalls == 3

NoTables == <<>>
NoText == <<>>

\* Scenario A: one maintenance table with one data row
PdfScenarioA ==
  [ all_tables |->
      << [ headers |-> <<<<"R","e","g","i","s","t","r","a","t","i","o","n"," ","N","u","m","b","e","r">>, <<"R","o","a","d","w","o","r","t","h","i","n","e","s","s"," ","C","e","r","t","i","f","i","c","a","t","e","s">>,
                         <<"D","a","i","l","y"," ","C","h","e","c","k","s">>>>,
           data |-> << <<<<"A","B","C","1","2","3">>, <<"1","2","/","0","5","/","2","0","2","3">>, <<"0","1","/","0","6","/","2","0","2","3">>>> >>,
           page |-> 1 ] >>,
    all_text_content |-> NoText, audit_information |-> <<>>, operator_information |-> <<>> ]

\* nothing was extracted from the PDF
PdfEmpty ==
  [ all_tables |-> NoTables, all_text_content |-> NoText,
    audit_information |-> <<>>, operator_information |-> <<>> ]

\* the audit table still holds the placeholder "Date"; the operator table
\* holds a manual value of digits only
PdfPlaceholders ==
  [ all_tables |->
      << [ headers |-> <<<<"A","u","d","i","t"," ","I","n","f","o","r","m","a","t","i","o","n">>, <<>> >>,
           data |-> << <<<<"D","a","t","e"," ","o","f"," ","A","u","d","i","t">>, <<"D","a","t","e">>>>,
                       <<<<"A","u","d","i","t"," ","w","a","s"," ","c","o","n","d","u","c","t","e","d"," ","o","n">>, <<"D","a","t","e">>>> >>,
           page |-> 1 ],
         [ headers |-> <<<<"O","p","e","r","a","t","o","r"," ","I","n","f","o","r","m","a","t","i","o","n">>, <<>> >>,
           data |-> << <<<<"N","H","V","A","S"," ","M","a","n","u","a","l"," ","(","P","o","l","i","c","i","e","s"," ","a","n","d"," ","P","r","o","c","e","d","u","r","e","s",")"," ","d","e","v","e","l","o","p","e","d"," ","b","y">>,
                         <<"5","1","1","8","4","0">>>> >>,
           page |-> 1 ] >>,
    all_text_content |-> NoText, audit_information |-> <<>>, operator_information |-> <<>> ]

\* the audit date and the manual are filled in
PdfFilled ==
  [ all_tables |->
      << [ headers |-> <<<<"A","u","d","i","t"," ","I","n","f","o","r","m","a","t","i","o","n">>, <<>> >>,
           data |-> << <<<<"A","u","d","i","t"," ","w","a","s"," ","c","o","n","d","u","c","t","e","d"," ","o","n">>, <<"1","3","t","h"," ","N","o","v","e","m","b","e","r"," ","2","0","2","4">>>>,
                       <<<<"M","a","n","u","a","l"," ","d","e","v","e","l","o","p","e","d"," ","b","y">>, <<"M","a","h","l","o"," ","0","9","2","0","2","1","v","1">>>> >>,
           page |-> 1 ] >>,
    all_text_content |-> NoText, audit_information |-> <<>>, operator_information |-> <<>> ]

\* the curated operator dict carries the accreditation number; the audit
\* date stands in the page text
PdfCurated ==
  [ all_tables |-> NoTables,
    all_text_content |-> << [text |-> <<"A","u","d","i","t"," ","w","a","s"," ","c","o","n","d","u","c","t","e","d"," ","o","n"," ","1","4","t","h"," ","M","a","y"," ","2","0","2","1">>] >>,
    audit_information |-> ("DateofAudit" :> <<"2","n","d","M","a","y","2","0","2","1">>),
    operator_information |-> ("nhvas_accreditation" :> <<"5","1","1","8","4","0">>) ]

\* a mass table with one vehicle, a maintenance table without a plate, and a
\* text line with a plate
PdfMass ==
  [ all_tables |->
      << [ headers |-> <<<<"N","o",".">>, <<"R","e","g","i","s","t","r","a","t","i","o","n"," ","N","u","m","b","e","r">>, <<"W","e","i","g","h","t"," ","V","e","r","i","f","i","c","a","t","i","o","n"," ","R","e","c","o","r","d","s">>,
                         <<"T","r","i","p"," ","R","e","c","o","r","d","s">>>>,
           data |-> << <<<<"1">>, <<"Q","W","E","4","5","6">>, <<"1","2","/","0","5","/","2","0","2","3">>, <<"2","/","3","/","2","3">>>> >>,
           page |-> 2 ],
         [ headers |-> <<<<"R","e","g","i","s","t","r","a","t","i","o","n"," ","N","u","m","b","e","r">>, <<"F","a","u","l","t"," ","R","e","p","a","i","r">>>>,
           data |-> << <<<<"N","u","m","b","e","r">>, <<"d","a","t","e">>>> >>,
           page |-> 3 ] >>,
    all_text_content |-> << [text |-> <<"A","B","-","1","2","-","C","D"," ","1","/","2","/","2","3">>] >>,
    audit_information |-> <<>>, operator_information |-> <<>> ]

\* a driver table without a roster column; the course of the second driver
\* is a number
PdfDrivers ==
  [ all_tables |->
      << [ headers |-> << <<"D","r","i","v","e","r"," ","N","a","m","e">>, <<"D","r","i","v","e","r"," ","T","L","I","F"," ","C","o","u","r","s","e"," ","#"," ","C","o","m","p","l","e","t","e","d">> >>,
           data |-> << << <<"A","l"," ","S","i","m">>, <<"y","e","s">> >>,
                       << <<"B","o"," ","T","a","n">>, <<"T","L","I","F","0","0","0","5">> >>,
                       << <<"C","y"," ","O","r","r">>, <<"y","e","s">> >> >>,
           page |-> 4 ] >>,
    all_text_content |-> NoText, audit_information |-> <<>>, operator_information |-> <<>> ]

\* a maintenance table, then a driver table whose only row ends after the
\* name
PdfDriverShortRow ==
  [ all_tables |->
      << [ headers |-> << <<"N","o",".">>, <<"R","e","g","i","s","t","r","a","t","i","o","n"," ","N","u","m","b","e","r">>, <<"D","a","i","l","y"," ","C","h","e","c","k","s">> >>,
           data |-> << << <<"1">>, <<"R","S","T","7","8","9">>, <<"3","/","4","/","2","3">> >> >>,
           page |-> 3 ],
         [ headers |-> << <<"D","r","i","v","e","r"," ","N","a","m","e">>, <<"R","o","s","t","e","r">>, <<"F","i","t"," ","f","o","r"," ","D","u","t","y">> >>,
           data |-> << << <<"A","l"," ","S","i","m">> >> >>,
           page |-> 4 ] >>,
    all_text_content |-> NoText, audit_information |-> <<>>, operator_information |-> <<>> ]

\* a driver table with a roster for every driver
PdfRoster ==
  [ all_tables |->
      << [ headers |-> << <<"D","r","i","v","e","r"," ","/"," ","S","c","h","e","d","u","l","e","r"," ","N","a","m","e">>, <<"R","o","s","t","e","r">>, <<"F","i","t"," ","f","o","r"," ","D","u","t","y">> >>,
           data |-> << << <<"A","l"," ","S","i","m">>, <<"1","/","2","/","2","3"," ","-"," ","7","/","2","/","2","3">>, <<"Y","e","s">> >>,
                       << <<>>, <<"x">>, <<"y">> >>,
                       << <<"B","o"," ","T","a","n">>, <<"8","/","2","/","2","3">> >> >>,
           page |-> 4 ] >>,
    all_text_content |-> NoText, audit_information |-> <<>>, operator_information |-> <<>> ]

\* two maintenance tables and a page text: the first row holds a plate
\* candidate of four characters, the second table and the text name the
\* vehicle of the first table again
PdfPlates ==
  [ all_tables |->
      << [ headers |-> << <<"N","o",".">>, <<"R","e","g","i","s","t","r","a","t","i","o","n"," ","N","u","m","b","e","r">>, <<"R","o","a","d","w","o","r","t","h","i","n","e","s","s"," ","C","e","r","t","i","f","i","c","a","t","e","s">>, <<"D","a","i","l","y"," ","C","h","e","c","k","s">> >>,
           data |-> << << <<"1">>, <<"A","B","1","2">>, <<"1","/","1","/","2","3">>, <<"2","/","1","/","2","3">> >>,
                       << <<"2">>, <<"A","B","-","1","2","-","C","D">>, <<>>, <<"3","/","1","/","2","3">> >> >>,
           page |-> 3 ],
         [ headers |-> << <<"N","o",".">>, <<"R","e","g","i","s","t","r","a","t","i","o","n"," ","N","u","m","b","e","r">>, <<"R","o","a","d","w","o","r","t","h","i","n","e","s","s"," ","C","e","r","t","i","f","i","c","a","t","e","s">>, <<"D","a","i","l","y"," ","C","h","e","c","k","s">> >>,
           data |-> << << <<"1">>, <<"X","Y","Z","7","8","9">>, <<"4","/","4","/","2","3">>, <<"5","/","4","/","2","3">> >>,
                       << <<"2">>, <<"A","B","-","1","2","-","C","D">>, <<"5","/","5","/","2","3">>, <<"6","/","6","/","2","3">> >> >>,
           page |-> 4 ] >>,
    all_text_content |-> << [text |-> <<"2"," ","A","B","-","1","2","-","C","D"," ","3","/","1","/","2","3">>] >>,
    audit_information |-> <<>>, operator_information |-> <<>> ]

\* a maintenance summary table and a mass summary table: the first label is
\* spread over two rows, the second has no details, the number of the fourth
\* starts with the number of the first
PdfSummary ==
  [ all_tables |->
      << [ headers |-> << <<"M","a","i","n","t","e","n","a","n","c","e"," "," ","M","a","n","a","g","e","m","e","n","t">>, <<"D","e","t","a","i","l","s">> >>,
           data |-> << << <<"S","t","d"," ","1","."," ","D","a","i","l","y"," ","C","h","e","c","k","s"," ","(","s","e","e"," ","n","o","t","e",")">>, <<"C","h","e","c","k","e","d"," ","d","a","i","l","y">> >>,
                       << <<"S","t","d"," ","1","."," ","D","a","i","l","y"," ","C","h","e","c","k","s">>, <<"a","n","d"," ","s","i","g","n","e","d">> >>,
                       << <<"S","t","d"," ","2","."," ","F","a","u","l","t"," ","R","e","c","o","r","d","i","n","g">>, <<>> >>,
                       << <<"S","t","d"," ","3","."," ","F","a","u","l","t"," ","R","e","p","a","i","r">>, <<"R","e","p","a","i","r","e","d">> >>,
                       << <<"S","t","d"," ","1","0","."," ","E","x","t","r","a">>, <<"N","o"," ","r","e","c","o","r","d">> >>,
                       << <<>>, <<"l","o","o","s","e"," ","t","e","x","t">> >> >>,
           page |-> 5 ],
         [ headers |-> << <<"M","A","S","S"," ","M","A","N","A","G","E","M","E","N","T">>, <<"D","E","T","A","I","L","S">> >>,
           data |-> << << <<"S","t","d"," ","1","."," ","R","e","s","p","o","n","s","i","b","i","l","i","t","i","e","s">>, <<"A","s","s","i","g","n","e","d">> >> >>,
           page |-> 6 ] >>,
    all_text_content |-> NoText, audit_information |-> <<>>, operator_information |-> <<>> ]

\* a maintenance table whose registration header is the first column.  The
\* first data row holds a row number only, so that no row is taken for a
\* header fragment; the plate of the second row is written with a space,
\* that of the third without
PdfSpacedPlate ==
  [ all_tables |->
      << [ headers |-> << <<"R","e","g","i","s","t","r","a","t","i","o","n"," ","N","u","m","b","e","r">>, <<"R","o","a","d","w","o","r","t","h","i","n","e","s","s"," ","C","e","r","t","i","f","i","c","a","t","e","s">>, <<"D","a","i","l","y"," ","C","h","e","c","k","s">> >>,
           data |-> << << <<"1",".">>, <<>>, <<>> >>,
                       << <<"A","B","C"," ","1","2","3">>, <<"1","2","/","0","5","/","2","0","2","3">>, <<"0","1","/","0","6","/","2","0","2","3">> >>,
                       << <<"X","Y","Z","7","8","9">>, <<"1","/","1","/","2","3">>, <<"2","/","1","/","2","3">> >> >>,
           page |-> 2 ] >>,
    all_text_content |-> NoText, audit_information |-> <<>>, operator_information |-> <<>> ]

PdfMenu ==
  { PdfScenarioA, PdfEmpty, PdfPlaceholders, PdfFilled, PdfCurated, PdfMass,
    PdfDrivers, PdfDriverShortRow, PdfRoster, PdfPlates, PdfSummary, PdfSpacedPlate }

\* a DOCX map with six sections, each label with the value of the template
DocxFull ==
  ( "Audit Information" :>
      ( "Date of Audit" :> <<<<"D","a","t","e">>>> @@ "Auditor name" :> <<<<"A","n","n"," ","L","e","e">>>> ) ) @@
  ( "Operator Information" :>
      ( "NHVAS Manual (Policies and Procedures) developed by" :> <<<<"M","a","h","l","o">>>> @@
        "Australian Company Number" :> <<<<"5","1","1","8","4","0">>>> ) ) @@
  ( "Audit Declaration dates" :> ( "Audit was conducted on" :> <<<<"D","a","t","e">>>> ) ) @@
  ( "Vehicle Registration Numbers Maintenance" :>
      ( "No." :> <<<<"1">>>> @@
        "Registration Number" :> <<<<"O","L","D","1","1","1">>>> @@
        "Roadworthiness Certificates" :> <<<<"1","/","1","/","2","0">>>> @@
        "Daily Checks" :> <<<<"2","/","2","/","2","0">>>> ) ) @@
  ( "Vehicle Registration Numbers Mass" :>
      ( "Registration Number" :> <<<<"O","L","D","1","1","1">>>> @@ "Trip Records" :> <<<<"3","/","3","/","2","0">>>> ) ) @@
  ( "Driver / Scheduler Records Examined" :>
      ( "Driver / Scheduler Name" :> << <<"O","l","d"," ","N","a","m","e">> >> @@
        "Fit for Duty Statement Completed (Yes/No)" :> << <<"Y","e","s">> >> ) )

\* a DOCX map without the audit, operator and mass sections
DocxVehicles ==
  ( "Audit Declaration dates" :> ( "Audit was conducted on" :> <<<<"1","s","t"," ","M","a","y"," ","2","0","2","0">>>> ) ) @@
  ( "Vehicle Registration Numbers Maintenance" :>
      ( "Registration Number" :> <<>> @@ "Fault Repair" :> <<>> ) )

\* a DOCX map with two summary sections; the labels of a summary section are
\* texts, since the merge reads the number in them
DocxSummary ==
  ( "Maintenance Management Summary" :>
      ( <<"S","t","d"," ","1","."," ","D","a","i","l","y"," ","C","h","e","c","k">> :> <<<<"E","n","t","r","y">>>> @@
        <<"S","t","d"," ","2","."," ","F","a","u","l","t"," ","R","e","c","o","r","d","i","n","g"," ","a","n","d"," ","R","e","p","o","r","t","i","n","g">> :> <<<<"E","n","t","r","y">>>> @@
        <<"S","t","d"," ","3","."," ","F","a","u","l","t"," ","R","e","p","a","i","r">> :> <<<<"E","n","t","r","y">>>> ) ) @@
  ( "Fatigue Management Summary" :>
      ( <<"S","t","d"," ","1","."," ","S","c","h","e","d","u","l","i","n","g"," ","a","n","d"," ","R","o","s","t","e","r","i","n","g">> :> <<<<"E","n","t","r","y">>>> ) )

DocxMenu == {DocxFull, DocxVehicles, DocxSummary}

\* The extraction of a PDF from a cleared accumulator, and the map merged
\* from it, are functions of the PDF and the DOCX map: those of the menu are
\* evaluated once.
MenuExtractions == [p \in PdfMenu |-> ExtractionSteps(p, <<>>)]
MenuMerged ==
  [p \in PdfMenu |-> [d \in DocxMenu |-> map_to_docx_structure(MenuExtractions[p].ex, d, p)]]

\* extract_from_pdf_comprehensive: the clear, then the steps
extract_from_pdf_comprehensive(pdf_data, acc) ==
  CHOOSE res \in
    { IF cleared = <<>> /\ pdf_data \in PdfMenu THEN MenuExtractions[pdf_data]
      ELSE ExtractionSteps(pdf_data, cleared) :
      cleared \in {vehicle_by_reg_clear(acc)} } : TRUE

\* map_to_docx_structure(x.ex, docx_data, pdf_data) for the extraction x
MergedMap(x, docx_data, pdf_data) ==
  IF pdf_data \in PdfMenu /\ docx_data \in DocxMenu /\ x = MenuExtractions[pdf_data]
  THEN MenuMerged[pdf_data][docx_data]
  ELSE map_to_docx_structure(x.ex, docx_data, pdf_data)

MgInit ==
  /\ docx_json \in DocxMenu
  /\ pdf_json = <<>> /\ _vehicle_by_reg = <<>>
  /\ extraction = <<>> /\ merged_data = <<>>
  /\ first_pdf = <<>> /\ first_merged = <<>> /\ calls = 0 /\ mg_error = ""
  /\ PipeIdle /\ ExtIdle /\ WrIdle /\ RtIdle

\* merger = NHVASMerger(): a new instance starts with an empty accumulator
__init__ ==
  /\ _vehicle_by_reg' = <<>>
  /\ UNCHANGED <<docx_json, pdf_json, extraction, merged_data, first_pdf, first_merged, calls,
                 mg_error>>
  /\ MgFrame

\* merged_data = merger.merge_pdf_to_docx(docx_data, pdf_data).  When the
\* call raises, the caller's merged_data gets no value: what a returned call
\* left (pdf_json, extraction, merged_data) stays, the accumulator is as the
\* parsing left it.
merge_pdf_to_docx ==
  /\ calls < MaxCalls
  /\ \E p \in PdfMenu :
       \E x \in {extract_from_pdf_comprehensive(p, _vehicle_by_reg)} :
         IF x.raised # ""
         THEN /\ mg_error' = x.raised
              /\ _vehicle_by_reg' = x.acc
              /\ UNCHANGED <<pdf_json, extraction, merged_data, first_pdf, first_merged, calls>>
         ELSE \E m \in {MergedMap(x, docx_json, p)} :
                /\ mg_error' = ""
                /\ pdf_json' = p
                /\ _vehicle_by_reg' = x.acc
                /\ extraction' = x.ex
                /\ merged_data' = m
                /\ first_pdf' = IF calls = 0 THEN p ELSE first_pdf
                /\ first_merged' = IF calls = 0 THEN m ELSE first_merged
                /\ calls' = calls + 1
  /\ UNCHANGED docx_json
  /\ MgFrame

MgNext == __init__ \/ merge_pdf_to_docx

SpecMerger == MgInit /\ [][MgNext]_vars

\* ------------------------------------------------------------------------
\* Properties of the merger
\* ------------------------------------------------------------------------
AuditDeclaration == "Audit Declaration dates"
AuditConductedOn == "Audit was conducted on"
OperatorInformation == "Operator Information"
ManualLabel == "NHVAS Manual (Policies and Procedures) developed by"
VehicleMaintenance == "Vehicle Registration Numbers Maintenance"
VehicleMass == "Vehicle Registration Numbers Mass"

HasLetter(s) == \E i \in 1..Len(s) : IsAlpha(s[i])

\* the DOCX map holds the label in the section
InDocx(section, label) ==
  section \in DOMAIN docx_json /\ label \in DOMAIN docx_json[section]

\* the latest call left the value list of the label as it is in the DOCX map
Kept(section, label) == merged_data[section][label] = docx_json[section][label]

\* C3: a call of merge_pdf_to_docx with the DOCX map and the PDF data of the
\* first call returns the map that the first call returned, whatever was
\* merged in between and whether or not the instance is the same.
C3_SameInputsSameMap ==
  (calls > 0 /\ pdf_json = first_pdf) => merged_data = first_merged

\* a PDF with vehicles was merged again by an instance that has served other
\* calls since the first one
C3_Witness ==
  /\ calls >= 3
  /\ pdf_json = first_pdf
  /\ _vehicle_by_reg # <<>>
  /\ merged_data = first_merged
  /\ merged_data # docx_json

\* the dates that the PDF offers for "Audit was conducted on"
AuditDateCandidates ==
  { Get(extraction, "audit_conducted_date", <<>>),
    Get(Get(extraction, "audit_info", <<>>), "date_of_audit", <<>>) } \ {<<>>}

\* C7: a value written into Audit Declaration dates -> "Audit was conducted
\* on" is one string with a digit that is not the word "date"; when the PDF
\* offers nothing but the word "Date" the DOCX value is kept, and the date
\* "13th November 2024" of the PDF is written.
C7_AuditDateIsReal ==
  (calls > 0 /\ InDocx(AuditDeclaration, AuditConductedOn)) =>
    /\ Kept(AuditDeclaration, AuditConductedOn)
       \/ \E v \in {merged_data[AuditDeclaration][AuditConductedOn]} :
            /\ Len(v) = 1
            /\ HasDigit(v[1])
            /\ ToLower(Strip(v[1])) # <<"d","a","t","e">>
    /\ ( /\ AuditDateCandidates # {}
         /\ \A c \in AuditDateCandidates : ToLower(Strip(c)) = <<"d","a","t","e">> )
       => Kept(AuditDeclaration, AuditConductedOn)
    /\ Get(extraction, "audit_conducted_date", <<>>) = <<"1","3","t","h"," ","N","o","v","e","m","b","e","r"," ","2","0","2","4">>
       => merged_data[AuditDeclaration][AuditConductedOn] = <<<<"1","3","t","h"," ","N","o","v","e","m","b","e","r"," ","2","0","2","4">>>>

\* the placeholder of the DOCX map was replaced by the date of the PDF
C7_Witness ==
  /\ calls > 0
  /\ InDocx(AuditDeclaration, AuditConductedOn)
  /\ docx_json[AuditDeclaration][AuditConductedOn] = <<<<"D","a","t","e">>>>
  /\ Get(extraction, "audit_conducted_date", <<>>) = <<"1","3","t","h"," ","N","o","v","e","m","b","e","r"," ","2","0","2","4">>
  /\ merged_data[AuditDeclaration][AuditConductedOn] = <<<<"1","3","t","h"," ","N","o","v","e","m","b","e","r"," ","2","0","2","4">>>>

\* C8: a value written into Operator Information -> "NHVAS Manual (Policies
\* and Procedures) developed by" holds a letter; a candidate without a letter
\* is discarded and the DOCX value is kept.
C8_ManualHasLetter ==
  (calls > 0 /\ InDocx(OperatorInformation, ManualLabel)) =>
    \/ Kept(OperatorInformation, ManualLabel)
    \/ \A i \in 1..Len(merged_data[OperatorInformation][ManualLabel]) :
         HasLetter(merged_data[OperatorInformation][ManualLabel][i])

\* the PDF yields a value for the label of the section
PdfYields(section, label) ==
  CASE section = "Audit Information" ->
         \E p \in AuditInformationFields :
           p[2] = label /\ Truthy(Get(extraction, "audit_info", <<>>), p[1])
    [] section = OperatorInformation ->
         \E p \in OperatorInformationFields :
           p[2] = label /\ Truthy(Get(extraction, "operator_info", <<>>), p[1])
    [] section = AuditDeclaration ->
         label = AuditConductedOn /\ AuditDateCandidates # {}
    [] section = DriverSection ->
         /\ "drivers_detailed" \in DOMAIN extraction
         /\ label \in { "Roster / Schedule / Safe Driving Plan (Date Range)",
                        "Fit for Duty Statement Completed (Yes/No)",
                        "Work Diary Pages (Page Numbers) Electronic Work Diary Records (Date Range)" }
    [] section \in {VehicleMaintenance, VehicleMass} ->
         \/ Get(extraction, "vehicles", <<>>) # <<>>
         \/ Get(extraction, "_maint_rows", <<>>) # <<>>
         \/ ForceRowsOfTables(pdf_json.all_tables) # <<>>
    [] OTHER -> FALSE

\* C9: a label of the DOCX map for which the PDF yields no value keeps the
\* value list of the DOCX map.
C9_AbsenceKeepsDocxValue ==
  calls > 0 =>
    \A section \in DOMAIN docx_json :
      \A label \in DOMAIN docx_json[section] :
        ~PdfYields(section, label) => Kept(section, label)

\* C10: Scenario A merged into a DOCX map with the maintenance section gives
\* Registration Number = ['ABC123'], Roadworthiness Certificates =
\* ['12/05/2023'] and Daily Checks = ['01/06/2023'].
C10_ScenarioA ==
  (calls > 0 /\ pdf_json = PdfScenarioA /\ VehicleMaintenance \in DOMAIN docx_json) =>
    /\ merged_data[VehicleMaintenance]["Registration Number"] = <<<<"A","B","C","1","2","3">>>>
    /\ merged_data[VehicleMaintenance]["Roadworthiness Certificates"] = <<<<"1","2","/","0","5","/","2","0","2","3">>>>
    /\ merged_data[VehicleMaintenance]["Daily Checks"] = <<<<"0","1","/","0","6","/","2","0","2","3">>>>

\* the PDF table goes to _extract_driver_table
IsDriverTable(t) ==
  /\ t.data # <<>>
  /\ ~_is_vehicle_registration_table(t.headers)
  /\ ~_is_vehicle_registration_table(_collapse_multiline_headers(t.headers, t.data)[1])
  /\ ~_is_audit_info_table(t.headers) /\ ~_is_operator_info_table(t.headers)
  /\ ~_is_attendance_table(t.headers) /\ ~_is_vehicle_summary_table(t.headers)
  /\ _is_driver_table(t.headers)

\* the PDF table goes to _extract_vehicle_registration_table
IsVehicleTable(t) ==
  /\ t.data # <<>>
  /\ \/ _is_vehicle_registration_table(t.headers)
     \/ _is_vehicle_registration_table(_collapse_multiline_headers(t.headers, t.data)[1])

\* the names in the name column of a driver table, the empty ones left out,
\* in row order
NamedRows(t) ==
  SelectSeq([k \in 1..Len(t.data) |->
               _smart_space(Cell(t.data[k], DriverColumns(t.headers).name_idx))],
            LAMBDA name : name # <<>>)

\* the valid plates in the registration column of a table, in row order
PlateRows(t) ==
  SelectSeq([k \in 1..Len(t.data) |->
               Cell(t.data[k],
                    Fidx([i \in 1..Len(t.headers) |-> _canon_header(t.headers[i])], "reg"))],
            looks_like_plate)

\* the names of the driver records of the latest extraction
DriverNames ==
  [k \in 1..Len(Get(extraction, "drivers_detailed", <<>>)) |->
     extraction["drivers_detailed"][k]["name"]]

\* the vehicle records of the latest extraction that come from tables
TableVehicles ==
  SelectSeq(Get(extraction, "vehicles", <<>>),
            LAMBDA v : "seen_in_maintenance" \in DOMAIN v \/ "seen_in_mass" \in DOMAIN v)

\* a plate candidate without its whitespace and hyphens
PlateChars(s) == SelectSeq(s, LAMBDA c : c \notin {" ", "\n", "\t", "-"})

\* the cells of the data rows of the tables of the latest PDF
TableCells ==
  UNION { UNION { Range(pdf_json.all_tables[k].data[r]) :
                  r \in 1..Len(pdf_json.all_tables[k].data) } :
          k \in 1..Len(pdf_json.all_tables) }

\* C13: looks_like_plate accepts a cell of a PDF table only if the cell,
\* without whitespace and hyphens, is 5 to 8 letters and digits; a cell of
\* exactly 4 characters is rejected; and the plate of every vehicle record
\* built from a table has 5 to 8 characters.
C13_PlateLengthInRange ==
  calls > 0 =>
    /\ \A c \in TableCells :
         /\ looks_like_plate(c) =>
              /\ Len(PlateChars(c)) \in 5..8
              /\ \A i \in 1..Len(PlateChars(c)) :
                   IsAlpha(PlateChars(c)[i]) \/ IsDigit(PlateChars(c)[i])
         /\ Len(PlateChars(c)) = 4 => ~looks_like_plate(c)
    /\ \A v \in Range(TableVehicles) : Len(PlateChars(v["registration"])) \in 5..8

\* a table with a candidate of four characters, two letters and two digits,
\* in a row of its own was merged, and vehicle records were built from the
\* other rows
C13_Witness ==
  /\ calls > 0
  /\ \E c \in TableCells :
       /\ Len(PlateChars(c)) = 4 /\ CountAlpha(c) = 2 /\ CountDigit(c) = 2
       /\ ~looks_like_plate(c)
  /\ Len(TableVehicles) >= 2

\* C15: after a merge, the driver records are those of the data rows of the
\* driver tables that have a name, one record per row in row order, and
\* every data row of a vehicle table with a valid plate has its vehicle
\* record: no row is dropped for what its other cells or the earlier rows
\* hold.
C15_NoRowDropped ==
  calls > 0 =>
    /\ DriverNames =
         ConcatAll([k \in 1..Len(pdf_json.all_tables) |->
                      IF IsDriverTable(pdf_json.all_tables[k])
                      THEN NamedRows(pdf_json.all_tables[k]) ELSE <<>>])
    /\ \A k \in 1..Len(pdf_json.all_tables) :
         IsVehicleTable(pdf_json.all_tables[k]) =>
           \E plates \in {PlateRows(pdf_json.all_tables[k])} :
             \A r \in 1..Len(plates) :
               \E v \in Range(TableVehicles) : v["registration"] = _smart_space(plates[r])

\* C16: merge_pdf_to_docx returns a merged map for every PDF of the menu,
\* the tables with rows shorter than the header row included: no call
\* raises.
C16_MergeNeverRaises == mg_error = ""

\* the values that the rows of the maintenance tables gave for a field of a
\* registration, in table order then row order
SeenValues(reg, field) ==
  CHOOSE res \in
    { [k \in 1..Len(rows) |-> rows[k][field]] :
      rows \in { SelectSeq(Get(extraction, "_maint_rows", <<>>),
                           LAMBDA row : row["registration"] = reg) } } : TRUE

\* C19: the vehicle records of an extraction hold at most one record for a
\* registration, whether the tables or the lines of the page text gave it,
\* and a maintenance field of a record built from the tables is the first
\* value, among those of the rows with the registration, that is not empty.
C19_OneRecordPerRegistration ==
  calls > 0 =>
    \E vehicles \in {Get(extraction, "vehicles", <<>>)} :
      /\ \A i, j \in 1..Len(vehicles) :
           vehicles[i]["registration"] = vehicles[j]["registration"] => i = j
      /\ \A v \in Range(TableVehicles) :
           \A k \in 1..Len(MaintKeys) :
             SeenValues(v["registration"], MaintKeys[k]) # <<>> =>
               Get(v, MaintKeys[k], <<>>) =
                 FirstNonEmpty(SeenValues(v["registration"], MaintKeys[k]))

\* C18: the map that merge_pdf_to_docx returns has the top-level schema
\* names of the DOCX map, no more and no less, whatever the PDF holds.
C18_SameSections == calls > 0 => DOMAIN merged_data = DOMAIN docx_json

\* a PDF with drivers was merged into a DOCX map without the driver
\* section: the merge changed the map and added no section
C18_Witness ==
  /\ calls > 0
  /\ "drivers_detailed" \in DOMAIN extraction
  /\ DriverSection \notin DOMAIN docx_json
  /\ merged_data # docx_json
  /\ DOMAIN merged_data = DOMAIN docx_json

\* the canonical headers of a PDF table
CanonHeaders(t) == [i \in 1..Len(t.headers) |-> _canon_header(t.headers[i])]

\* the data rows with a valid plate of the tables of the latest PDF that are
\* detected as maintenance tables, in table order then row order; of every
\* row the cells of the registration, roadworthiness and daily checks
\* columns
MaintenanceRows ==
  ConcatAll([k \in 1..Len(pdf_json.all_tables) |->
    CHOOSE res \in
      { IF IsMaintenanceHeaders(hdrs)
        THEN SelectSeq([r \in 1..Len(t.data) |->
                          [ plate |-> Cell(t.data[r], Fidx(hdrs, "reg")),
                            roadworthiness |-> Cell(t.data[r], Fidx(hdrs, "rw")),
                            daily_checks |-> Cell(t.data[r], Fidx(hdrs, "dc")) ]],
                       LAMBDA row : looks_like_plate(row.plate))
        ELSE <<>> :
        t \in {pdf_json.all_tables[k]}, hdrs \in {CanonHeaders(pdf_json.all_tables[k])} } : TRUE])

\* the six arrays of the maintenance section
MaintenanceLabels ==
  { "Registration Number", "Roadworthiness Certificates", "Maintenance Records",
    "Daily Checks", "Fault Recording/ Reporting", "Fault Repair" }

\* C20: in a merged map with the maintenance section, when a maintenance
\* table of the PDF has a data row with a valid plate, each of the six arrays
\* has one entry per such row, in table order then row order, and the plate,
\* the roadworthiness and the daily checks entries are those of the row;
\* when there is no such row the section is as the blocks before the final
\* pass left it.
C20_FinalPassOverwrites ==
  (calls > 0 /\ VehicleMaintenance \in DOMAIN docx_json) =>
    \E rows \in {MaintenanceRows}, maint \in {merged_data[VehicleMaintenance]} :
      IF rows # <<>>
      THEN /\ \A l \in MaintenanceLabels : l \in DOMAIN maint /\ Len(maint[l]) = Len(rows)
           /\ \A k \in 1..Len(rows) :
                /\ maint["Registration Number"][k] = _smart_space(rows[k].plate)
                /\ maint["Roadworthiness Certificates"][k] = rows[k].roadworthiness
                /\ maint["Daily Checks"][k] = rows[k].daily_checks
      ELSE maint = MergedBlocks(extraction, docx_json, pdf_json)[VehicleMaintenance]

\* two maintenance tables with three rows with a valid plate were merged,
\* and the final pass replaced what the blocks had accumulated
C20_Witness ==
  /\ calls > 0 /\ VehicleMaintenance \in DOMAIN docx_json
  /\ Len(MaintenanceRows) >= 3
  /\ \E j, k \in 1..Len(pdf_json.all_tables) :
       /\ j # k
       /\ IsMaintenanceHeaders(CanonHeaders(pdf_json.all_tables[j]))
       /\ IsMaintenanceHeaders(CanonHeaders(pdf_json.all_tables[k]))
  /\ merged_data[VehicleMaintenance] # MergedBlocks(extraction, docx_json, pdf_json)[VehicleMaintenance]

\* the table has a DETAILS header and the header of the summary section
IsSummaryTable(t, s) ==
  \E headers \in {[i \in 1..Len(t.headers) |-> ToUpper(Strip(CollapseSpaces(t.headers[i])))]} :
    <<"D","E","T","A","I","L","S">> \in Range(headers) /\ s.header \in Range(headers)

\* the rows of the summary tables of the section in the latest PDF that have
\* a label and details
SummaryRowsOf(s) ==
  SelectSeq(AllRows(SelectSeq(pdf_json.all_tables, LAMBDA t : IsSummaryTable(t, s))),
            LAMBDA row : Len(row) >= 2 /\ Strip(row[1]) # <<>> /\ Strip(row[2]) # <<>>)

\* the details of the rows whose label has the number, joined by a space in
\* the order of the rows
JoinedDetails(s, number) ==
  CHOOSE res \in
    { JoinWith([k \in 1..Len(rows) |-> Strip(rows[k][2])], <<" ">>) :
      rows \in {SelectSeq(SummaryRowsOf(s),
                  LAMBDA row : StdNumber(normalize_std_label(row[1])) = number)} } : TRUE

\* C22: in a summary section of the DOCX map, a label with the number N of a
\* row of a PDF summary table of that section with non-empty details gets
\* the joined details of the rows with that number as its value, whatever the
\* rest of the two label texts; a label with a number of no such row keeps
\* its value.
C22_SummaryDetailsByNumber ==
  calls > 0 =>
    \A s \in Range(SUMMARY_SECTIONS) :
      s.section \in DOMAIN docx_json =>
        \A label \in DOMAIN docx_json[s.section] :
          StdNumber(label) # <<>> =>
            \E joined \in {JoinedDetails(s, StdNumber(label))} :
              IF joined # <<>>
              THEN merged_data[s.section][label] = <<_smart_space(joined)>>
              ELSE Kept(s.section, label)

\* a label took the details of two rows whose label is another text, while a
\* label of the same section kept its value: the PDF has a row with details
\* whose number only starts with the number of the first label, and a row
\* with the number of the second label without details
C22_Witness ==
  /\ calls > 0
  /\ \E s \in Range(SUMMARY_SECTIONS) :
       /\ s.section \in DOMAIN docx_json
       /\ \E label, other \in DOMAIN docx_json[s.section] :
            /\ StdNumber(label) # <<>> /\ StdNumber(other) # <<>>
            /\ \A row \in Range(SummaryRowsOf(s)) : normalize_std_label(row[1]) # label
            /\ Cardinality({k \in 1..Len(SummaryRowsOf(s)) :
                 StdNumber(normalize_std_label(SummaryRowsOf(s)[k][1])) = StdNumber(label)}) >= 2
            /\ merged_data[s.section][label] = <<_smart_space(JoinedDetails(s, StdNumber(label)))>>
            /\ ~Kept(s.section, label)
            /\ \E row \in Range(SummaryRowsOf(s)) :
                 \E n \in {StdNumber(normalize_std_label(row[1]))} :
                   /\ n # StdNumber(label) /\ Len(n) > Len(StdNumber(label))
                   /\ SubSeq(n, 1, Len(StdNumber(label))) = StdNumber(label)
            /\ JoinedDetails(s, StdNumber(other)) = <<>>
            /\ \E t \in Range(pdf_json.all_tables) :
                 /\ IsSummaryTable(t, s)
                 /\ \E row \in Range(t.data) :
                      Len(row) >= 1 /\ StdNumber(normalize_std_label(row[1])) = StdNumber(other)
            /\ Kept(s.section, other)

\* the column that _map_header_indices finds for the registration header
\* (-1: none)
RegistrationColumn(headers) == Get(_map_header_indices(headers), "registration", -1)

\* C27: when the registration header of a vehicle table of the latest PDF is
\* column 0, every data row whose column-0 cell is a valid plate, a plate
\* written with an internal space included, has a vehicle record with that
\* plate in the latest extraction.
C27_ColumnZeroAnchor ==
  calls > 0 =>
    \A k \in 1..Len(pdf_json.all_tables) :
      IsVehicleTable(pdf_json.all_tables[k]) =>
        \E c \in {_collapse_multiline_headers(pdf_json.all_tables[k].headers,
                                              pdf_json.all_tables[k].data)} :
          RegistrationColumn(c[1]) = 0 =>
            \A r \in 1..Len(c[2]) :
              looks_like_plate(Cell(c[2][r], 0)) =>
                \E v \in Range(TableVehicles) :
                  v["registration"] = _smart_space(Cell(c[2][r], 0))

\* the six arrays that build_vehicle_sections and the final pass write into
\* the Maintenance section, and the six of the Mass section
MaintLabels ==
  {"Registration Number", "Roadworthiness Certificates", "Maintenance Records",
   "Daily Checks", "Fault Recording/ Reporting", "Fault Repair"}
MassLabels ==
  {"Registration Number", "Weight Verification Records", "RFS Suspension Certification #",
   "Suspension System Maintenance", "Trip Records",
   "Fault Recording/ Reporting on Suspension System"}

\* the latest merged map holds the labels in the section, each with an array
\* of the same length
SameLength(section, labels) ==
  /\ labels \subseteq DOMAIN merged_data[section]
  /\ \A a, b \in labels : Len(merged_data[section][a]) = Len(merged_data[section][b])

\* entry i of the six Mass arrays is the plate and the five mass values of
\* one vehicle record of the latest extraction
MassEntryOfVehicle(i) ==
  \E v \in Range(Get(extraction, "vehicles", <<>>)) :
    /\ merged_data[VehicleMass]["Registration Number"][i] = _smart_space(v["registration"])
    /\ merged_data[VehicleMass]["Weight Verification Records"][i] = _nz(Get(v, "weight_verification", <<>>))
    /\ merged_data[VehicleMass]["RFS Suspension Certification #"][i] = _nz(Get(v, "rfs_certification", <<>>))
    /\ merged_data[VehicleMass]["Suspension System Maintenance"][i] = _nz(Get(v, "suspension_maintenance", <<>>))
    /\ merged_data[VehicleMass]["Trip Records"][i] = _nz(Get(v, "trip_records", <<>>))
    /\ merged_data[VehicleMass]["Fault Recording/ Reporting on Suspension System"][i] =
         _nz(Get(v, "fault_reporting_suspension", <<>>))

\* C30: after a merge with a DOCX map that holds the section, the six
\* Maintenance arrays that the merger writes have one length, and so have the
\* six Mass arrays, whose entry i is that of one vehicle record.
C30_VehicleArraysSameLength ==
  calls > 0 =>
    /\ VehicleMaintenance \in DOMAIN docx_json => SameLength(VehicleMaintenance, MaintLabels)
    /\ VehicleMass \in DOMAIN docx_json =>
         /\ SameLength(VehicleMass, MassLabels)
         /\ \A i \in 1..Len(merged_data[VehicleMass]["Registration Number"]) : MassEntryOfVehicle(i)

\* a merge wrote one mass vehicle and the Maintenance arrays into a DOCX map
\* that holds both sections; the final pass found another number of rows
\* than the table parser had recorded, and the label "No." of the DOCX map,
\* which the merger does not write, kept its array
C30_Witness ==
  /\ calls > 0
  /\ {VehicleMaintenance, VehicleMass} \subseteq DOMAIN docx_json
  /\ Len(merged_data[VehicleMass]["Registration Number"]) >= 1
  /\ Len(merged_data[VehicleMaintenance]["Registration Number"]) >= 1
  /\ Len(merged_data[VehicleMaintenance]["Registration Number"]) #
       Len(Get(extraction, "_maint_rows", <<>>))
  /\ merged_data[VehicleMaintenance]["No."] = docx_json[VehicleMaintenance]["No."]

\* TABLE_SCHEMAS, in the order of the dict.  A schema is [name, headings (the
\* "text" of each), orientation, labels, columns, context_keywords,
\* context_exclusions]; an absent key is the empty list.
TABLE_SCHEMAS ==
  <<
    \* Tick as appropriate
    [ name |-> <<"T","i","c","k"," ","a","s"," ","a","p","p","r","o","p","r","i","a","t","e">>,
      headings |-> <<
        <<"N","H","V","A","S"," ","A","u","d","i","t"," ","S","u","m","m","a","r","y"," ","R","e",
          "p","o","r","t">> >>,
      orientation |-> "left",
      labels |-> <<
        <<"M","a","s","s">>,
        <<"E","n","t","r","y"," ","A","u","d","i","t">>,
        <<"M","a","i","n","t","e","n","a","n","c","e">>,
        <<"I","n","i","t","i","a","l"," ","C","o","m","p","l","i","a","n","c","e"," ","A","u","d",
          "i","t">>,
        <<"B","a","s","i","c"," ","F","a","t","i","g","u","e">>,
        <<"C","o","m","p","l","i","a","n","c","e"," ","A","u","d","i","t">>,
        <<"A","d","v","a","n","c","e","d"," ","F","a","t","i","g","u","e">>,
        <<"S","p","o","t"," ","C","h","e","c","k">>,
        <<"T","r","i","g","g","e","r","e","d"," ","A","u","d","i","t">> >>,
      columns |-> <<>>,
      context_keywords |-> <<>>,
      context_exclusions |-> <<>> ],
    \* Audit Information
    [ name |-> <<"A","u","d","i","t"," ","I","n","f","o","r","m","a","t","i","o","n">>,
      headings |-> <<>>,
      orientation |-> "left",
      labels |-> <<
        <<"D","a","t","e"," ","o","f"," ","A","u","d","i","t">>,
        <<"L","o","c","a","t","i","o","n"," ","o","f"," ","a","u","d","i","t">>,
        <<"A","u","d","i","t","o","r"," ","n","a","m","e">>,
        <<"A","u","d","i","t"," ","M","a","t","r","i","x"," ","I","d","e","n","t","i","f","i","e",
          "r"," ","(","N","a","m","e"," ","o","r"," ","N","u","m","b","e","r",")">>,
        <<"A","u","d","i","t","o","r"," ","E","x","e","m","p","l","a","r"," ","G","l","o","b","a",
          "l"," ","R","e","g"," ","N","o",".">>,
        <<"e","x","p","i","r","y"," ","D","a","t","e",":">>,
        <<"N","H","V","R"," ","A","u","d","i","t","o","r"," ","R","e","g","i","s","t","r","a","t",
          "i","o","n"," ","N","u","m","b","e","r">>,
        <<"e","x","p","i","r","y"," ","D","a","t","e",":">> >>,
      columns |-> <<>>,
      context_keywords |-> <<>>,
      context_exclusions |-> <<>> ],
    \* Operator Information
    [ name |-> <<"O","p","e","r","a","t","o","r"," ","I","n","f","o","r","m","a","t","i","o","n">>,
      headings |-> <<
        <<"O","p","e","r","a","t","o","r"," ","I","n","f","o","r","m","a","t","i","o","n">> >>,
      orientation |-> "left",
      labels |-> <<
        <<"O","p","e","r","a","t","o","r"," ","n","a","m","e"," ","(","L","e","g","a","l"," ","e",
          "n","t","i","t","y",")">>,
        <<"N","H","V","A","S"," ","A","c","c","r","e","d","i","t","a","t","i","o","n"," ","N","o",
          "."," ","(","I","f"," ","a","p","p","l","i","c","a","b","l","e",")">>,
        <<"R","e","g","i","s","t","e","r","e","d"," ","t","r","a","d","i","n","g"," ","n","a","m",
          "e","/","s">>,
        <<"A","u","s","t","r","a","l","i","a","n"," ","C","o","m","p","a","n","y"," ","N","u","m",
          "b","e","r">>,
        <<"N","H","V","A","S"," ","M","a","n","u","a","l"," ","(","P","o","l","i","c","i","e","s",
          " ","a","n","d"," ","P","r","o","c","e","d","u","r","e","s",")"," ","d","e","v","e","l",
          "o","p","e","d"," ","b","y">> >>,
      columns |-> <<>>,
      context_keywords |-> <<>>,
      context_exclusions |-> <<>> ],
    \* Operator contact details
    [ name |-> <<"O","p","e","r","a","t","o","r"," ","c","o","n","t","a","c","t"," ","d","e","t",
                  "a","i","l","s">>,
      headings |-> <<>>,
      orientation |-> "left",
      labels |-> <<
        <<"O","p","e","r","a","t","o","r"," ","b","u","s","i","n","e","s","s"," ","a","d","d","r",
          "e","s","s">>,
        <<"O","p","e","r","a","t","o","r"," ","P","o","s","t","a","l"," ","a","d","d","r","e","s",
          "s">>,
        <<"E","m","a","i","l"," ","a","d","d","r","e","s","s">>,
        <<"O","p","e","r","a","t","o","r"," ","T","e","l","e","p","h","o","n","e"," ","N","u","m",
          "b","e","r">> >>,
      columns |-> <<>>,
      context_keywords |-> <<
        <<"c","o","n","t","a","c","t">>,
        <<"a","d","d","r","e","s","s">>,
        <<"e","m","a","i","l">>,
        <<"t","e","l","e","p","h","o","n","e">> >>,
      context_exclusions |-> <<>> ],
    \* Attendance List (Names and Position Titles)
    [ name |-> <<"A","t","t","e","n","d","a","n","c","e"," ","L","i","s","t"," ","(","N","a","m",
                  "e","s"," ","a","n","d"," ","P","o","s","i","t","i","o","n"," ","T","i","t","l",
                  "e","s",")">>,
      headings |-> <<
        <<"N","H","V","A","S"," ","A","u","d","i","t"," ","S","u","m","m","a","r","y"," ","R","e",
          "p","o","r","t">> >>,
      orientation |-> "row1",
      labels |-> <<
        <<"A","t","t","e","n","d","a","n","c","e"," ","L","i","s","t"," ","(","N","a","m","e","s",
          " ","a","n","d"," ","P","o","s","i","t","i","o","n"," ","T","i","t","l","e","s",")">> >>,
      columns |-> <<>>,
      context_keywords |-> <<>>,
      context_exclusions |-> <<>> ],
    \* Nature of the Operators Business (Summary)
    [ name |-> <<"N","a","t","u","r","e"," ","o","f"," ","t","h","e"," ","O","p","e","r","a","t",
                  "o","r","s"," ","B","u","s","i","n","e","s","s"," ","(","S","u","m","m","a","r",
                  "y",")">>,
      headings |-> <<>>,
      orientation |-> "row1",
      labels |-> <<
        <<"N","a","t","u","r","e"," ","o","f"," ","t","h","e"," ","O","p","e","r","a","t","o","r",
          "s"," ","B","u","s","i","n","e","s","s"," ","(","S","u","m","m","a","r","y",")",":">> >>,
      columns |-> <<>>,
      context_keywords |-> <<>>,
      context_exclusions |-> <<>> ],
    \* Accreditation Vehicle Summary
    [ name |-> <<"A","c","c","r","e","d","i","t","a","t","i","o","n"," ","V","e","h","i","c","l",
                  "e"," ","S","u","m","m","a","r","y">>,
      headings |-> <<>>,
      orientation |-> "left",
      labels |-> <<
        <<"N","u","m","b","e","r"," ","o","f"," ","p","o","w","e","r","e","d"," ","v","e","h","i",
          "c","l","e","s">>,
        <<"N","u","m","b","e","r"," ","o","f"," ","t","r","a","i","l","i","n","g"," ","v","e","h",
          "i","c","l","e","s">> >>,
      columns |-> <<>>,
      context_keywords |-> <<>>,
      context_exclusions |-> <<>> ],
    \* Accreditation Driver Summary
    [ name |-> <<"A","c","c","r","e","d","i","t","a","t","i","o","n"," ","D","r","i","v","e","r",
                  " ","S","u","m","m","a","r","y">>,
      headings |-> <<>>,
      orientation |-> "left",
      labels |-> <<
        <<"N","u","m","b","e","r"," ","o","f"," ","d","r","i","v","e","r","s"," ","i","n"," ","B",
          "F","M">>,
        <<"N","u","m","b","e","r"," ","o","f"," ","d","r","i","v","e","r","s"," ","i","n"," ","A",
          "F","M">> >>,
      columns |-> <<>>,
      context_keywords |-> <<>>,
      context_exclusions |-> <<>> ],
    \* Compliance Codes
    [ name |-> <<"C","o","m","p","l","i","a","n","c","e"," ","C","o","d","e","s">>,
      headings |-> <<>>,
      orientation |-> "left",
      labels |-> <<
        <<"V">>,
        <<"N","C">>,
        <<"T","N","C">>,
        <<"S","F","I">>,
        <<"N","A","P">>,
        <<"N","A">> >>,
      columns |-> <<>>,
      context_keywords |-> <<>>,
      context_exclusions |-> <<
        <<"M","A","S","S"," ","M","A","N","A","G","E","M","E","N","T">>,
        <<"M","A","I","N","T","E","N","A","N","C","E"," ","M","A","N","A","G","E","M","E","N","T">>,
        <<"F","A","T","I","G","U","E"," ","M","A","N","A","G","E","M","E","N","T">> >> ],
    \* Corrective Action Request Identification
    [ name |-> <<"C","o","r","r","e","c","t","i","v","e"," ","A","c","t","i","o","n"," ","R","e",
                  "q","u","e","s","t"," ","I","d","e","n","t","i","f","i","c","a","t","i","o","n">>,
      headings |-> <<>>,
      orientation |-> "row1",
      labels |-> <<
        <<"T","i","t","l","e">>,
        <<"A","b","b","r","e","v","i","a","t","i","o","n">>,
        <<"D","e","s","c","r","i","p","t","i","o","n">> >>,
      columns |-> <<>>,
      context_keywords |-> <<>>,
      context_exclusions |-> <<>> ],
    \* Maintenance Management
    [ name |-> <<"M","a","i","n","t","e","n","a","n","c","e"," ","M","a","n","a","g","e","m","e",
                  "n","t">>,
      headings |-> <<
        <<"N","H","V","A","S"," ","A","U","D","I","T"," ","S","U","M","M","A","R","Y"," ","R","E",
          "P","O","R","T">> >>,
      orientation |-> "left",
      labels |-> <<
        <<"S","t","d"," ","1","."," ","D","a","i","l","y"," ","C","h","e","c","k">>,
        <<"S","t","d"," ","2","."," ","F","a","u","l","t"," ","R","e","c","o","r","d","i","n","g",
          " ","a","n","d"," ","R","e","p","o","r","t","i","n","g">>,
        <<"S","t","d"," ","3","."," ","F","a","u","l","t"," ","R","e","p","a","i","r">>,
        <<"S","t","d"," ","4","."," ","M","a","i","n","t","e","n","a","n","c","e"," ","S","c","h",
          "e","d","u","l","e","s"," ","a","n","d"," ","M","e","t","h","o","d","s">>,
        <<"S","t","d"," ","5","."," ","R","e","c","o","r","d","s"," ","a","n","d"," ","D","o","c",
          "u","m","e","n","t","a","t","i","o","n">>,
        <<"S","t","d"," ","6","."," ","R","e","s","p","o","n","s","i","b","i","l","i","t","i","e",
          "s">>,
        <<"S","t","d"," ","7","."," ","I","n","t","e","r","n","a","l"," ","R","e","v","i","e","w">>,
        <<"S","t","d"," ","8","."," ","T","r","a","i","n","i","n","g"," ","a","n","d"," ","E","d",
          "u","c","a","t","i","o","n">> >>,
      columns |-> <<>>,
      context_keywords |-> <<
        <<"m","a","i","n","t","e","n","a","n","c","e">> >>,
      context_exclusions |-> <<
        <<"s","u","m","m","a","r","y">>,
        <<"d","e","t","a","i","l","s">>,
        <<"a","u","d","i","t"," ","f","i","n","d","i","n","g","s">> >> ],
    \* Mass Management
    [ name |-> <<"M","a","s","s"," ","M","a","n","a","g","e","m","e","n","t">>,
      headings |-> <<
        <<"N","H","V","A","S"," ","A","U","D","I","T"," ","S","U","M","M","A","R","Y"," ","R","E",
          "P","O","R","T">> >>,
      orientation |-> "left",
      labels |-> <<
        <<"S","t","d"," ","1","."," ","R","e","s","p","o","n","s","i","b","i","l","i","t","i","e",
          "s">>,
        <<"S","t","d"," ","2","."," ","V","e","h","i","c","l","e"," ","C","o","n","t","r","o","l">>,
        <<"S","t","d"," ","3","."," ","V","e","h","i","c","l","e"," ","U","s","e">>,
        <<"S","t","d"," ","4","."," ","R","e","c","o","r","d","s"," ","a","n","d"," ","D","o","c",
          "u","m","e","n","t","a","t","i","o","n">>,
        <<"S","t","d"," ","5","."," ","V","e","r","i","f","i","c","a","t","i","o","n">>,
        <<"S","t","d"," ","6","."," ","I","n","t","e","r","n","a","l"," ","R","e","v","i","e","w">>,
        <<"S","t","d"," ","7","."," ","T","r","a","i","n","i","n","g"," ","a","n","d"," ","E","d",
          "u","c","a","t","i","o","n">>,
        <<"S","t","d"," ","8","."," ","M","a","i","n","t","e","n","a","n","c","e"," ","o","f"," ",
          "S","u","s","p","e","n","s","i","o","n">> >>,
      columns |-> <<>>,
      context_keywords |-> <<
        <<"m","a","s","s">> >>,
      context_exclusions |-> <<
        <<"s","u","m","m","a","r","y">>,
        <<"d","e","t","a","i","l","s">>,
        <<"a","u","d","i","t"," ","f","i","n","d","i","n","g","s">> >> ],
    \* Fatigue Management
    [ name |-> <<"F","a","t","i","g","u","e"," ","M","a","n","a","g","e","m","e","n","t">>,
      headings |-> <<
        <<"N","H","V","A","S"," ","A","U","D","I","T"," ","S","U","M","M","A","R","Y"," ","R","E",
          "P","O","R","T">> >>,
      orientation |-> "left",
      labels |-> <<
        <<"S","t","d"," ","1","."," ","S","c","h","e","d","u","l","i","n","g"," ","a","n","d"," ",
          "R","o","s","t","e","r","i","n","g">>,
        <<"S","t","d"," ","2","."," ","H","e","a","l","t","h"," ","a","n","d"," ","w","e","l","l",
          "b","e","i","n","g"," ","f","o","r"," ","p","e","r","f","o","r","m","e","d"," ","d","u",
          "t","y">>,
        <<"S","t","d"," ","3","."," ","T","r","a","i","n","i","n","g"," ","a","n","d"," ","E","d",
          "u","c","a","t","i","o","n">>,
        <<"S","t","d"," ","4","."," ","R","e","s","p","o","n","s","i","b","i","l","i","t","i","e",
          "s"," ","a","n","d"," ","m","a","n","a","g","e","m","e","n","t"," ","p","r","a","c","t",
          "i","c","e","s">>,
        <<"S","t","d"," ","5","."," ","I","n","t","e","r","n","a","l"," ","R","e","v","i","e","w">>,
        <<"S","t","d"," ","6","."," ","R","e","c","o","r","d","s"," ","a","n","d"," ","D","o","c",
          "u","m","e","n","t","a","t","i","o","n">>,
        <<"S","t","d"," ","7","."," ","W","o","r","k","p","l","a","c","e"," ","c","o","n","d","i",
          "t","i","o","n","s">> >>,
      columns |-> <<>>,
      context_keywords |-> <<
        <<"f","a","t","i","g","u","e">> >>,
      context_exclusions |-> <<
        <<"s","u","m","m","a","r","y">>,
        <<"d","e","t","a","i","l","s">>,
        <<"a","u","d","i","t"," ","f","i","n","d","i","n","g","s">> >> ],
    \* Maintenance Management Summary
    [ name |-> <<"M","a","i","n","t","e","n","a","n","c","e"," ","M","a","n","a","g","e","m","e",
                  "n","t"," ","S","u","m","m","a","r","y">>,
      headings |-> <<
        <<"A","u","d","i","t"," ","O","b","s","e","r","v","a","t","i","o","n","s"," ","a","n","d",
          " ","C","o","m","m","e","n","t","s">>,
        <<"M","a","i","n","t","e","n","a","n","c","e"," ","M","a","n","a","g","e","m","e","n","t",
          " ","S","u","m","m","a","r","y"," ","o","f"," ","A","u","d","i","t"," ","f","i","n","d",
          "i","n","g","s">> >>,
      orientation |-> "left",
      labels |-> <<
        <<"S","t","d"," ","1","."," ","D","a","i","l","y"," ","C","h","e","c","k">>,
        <<"S","t","d"," ","2","."," ","F","a","u","l","t"," ","R","e","c","o","r","d","i","n","g",
          " ","a","n","d"," ","R","e","p","o","r","t","i","n","g">>,
        <<"S","t","d"," ","3","."," ","F","a","u","l","t"," ","R","e","p","a","i","r">>,
        <<"S","t","d"," ","4","."," ","M","a","i","n","t","e","n","a","n","c","e"," ","S","c","h",
          "e","d","u","l","e","s"," ","a","n","d"," ","M","e","t","h","o","d","s">>,
        <<"S","t","d"," ","5","."," ","R","e","c","o","r","d","s"," ","a","n","d"," ","D","o","c",
          "u","m","e","n","t","a","t","i","o","n">>,
        <<"S","t","d"," ","6","."," ","R","e","s","p","o","n","s","i","b","i","l","i","t","i","e",
          "s">>,
        <<"S","t","d"," ","7","."," ","I","n","t","e","r","n","a","l"," ","R","e","v","i","e","w">>,
        <<"S","t","d"," ","8","."," ","T","r","a","i","n","i","n","g"," ","a","n","d"," ","E","d",
          "u","c","a","t","i","o","n">> >>,
      columns |-> <<
        <<"M","A","I","N","T","E","N","A","N","C","E"," ","M","A","N","A","G","E","M","E","N","T">>,
        <<"D","E","T","A","I","L","S">> >>,
      context_keywords |-> <<
        <<"m","a","i","n","t","e","n","a","n","c","e">>,
        <<"s","u","m","m","a","r","y">>,
        <<"d","e","t","a","i","l","s">>,
        <<"a","u","d","i","t"," ","f","i","n","d","i","n","g","s">> >>,
      context_exclusions |-> <<>> ],
    \* Mass Management Summary
    [ name |-> <<"M","a","s","s"," ","M","a","n","a","g","e","m","e","n","t"," ","S","u","m","m",
                  "a","r","y">>,
      headings |-> <<
        <<"M","a","s","s"," ","M","a","n","a","g","e","m","e","n","t"," ","S","u","m","m","a","r",
          "y"," ","o","f"," ","A","u","d","i","t"," ","f","i","n","d","i","n","g","s">> >>,
      orientation |-> "left",
      labels |-> <<
        <<"S","t","d"," ","1","."," ","R","e","s","p","o","n","s","i","b","i","l","i","t","i","e",
          "s">>,
        <<"S","t","d"," ","2","."," ","V","e","h","i","c","l","e"," ","C","o","n","t","r","o","l">>,
        <<"S","t","d"," ","3","."," ","V","e","h","i","c","l","e"," ","U","s","e">>,
        <<"S","t","d"," ","4","."," ","R","e","c","o","r","d","s"," ","a","n","d"," ","D","o","c",
          "u","m","e","n","t","a","t","i","o","n">>,
        <<"S","t","d"," ","5","."," ","V","e","r","i","f","i","c","a","t","i","o","n">>,
        <<"S","t","d"," ","6","."," ","I","n","t","e","r","n","a","l"," ","R","e","v","i","e","w">>,
        <<"S","t","d"," ","7","."," ","T","r","a","i","n","i","n","g"," ","a","n","d"," ","E","d",
          "u","c","a","t","i","o","n">>,
        <<"S","t","d"," ","8","."," ","M","a","i","n","t","e","n","a","n","c","e"," ","o","f"," ",
          "S","u","s","p","e","n","s","i","o","n">> >>,
      columns |-> <<
        <<"M","A","S","S"," ","M","A","N","A","G","E","M","E","N","T">>,
        <<"D","E","T","A","I","L","S">> >>,
      context_keywords |-> <<
        <<"m","a","s","s">>,
        <<"s","u","m","m","a","r","y">>,
        <<"d","e","t","a","i","l","s">>,
        <<"a","u","d","i","t"," ","f","i","n","d","i","n","g","s">> >>,
      context_exclusions |-> <<>> ],
    \* Fatigue Management Summary
    [ name |-> <<"F","a","t","i","g","u","e"," ","M","a","n","a","g","e","m","e","n","t"," ","S",
                  "u","m","m","a","r","y">>,
      headings |-> <<
        <<"F","a","t","i","g","u","e"," ","M","a","n","a","g","e","m","e","n","t"," ","S","u","m",
          "m","a","r","y"," ","o","f"," ","A","u","d","i","t"," ","f","i","n","d","i","n","g","s">> >>,
      orientation |-> "left",
      labels |-> <<
        <<"S","t","d"," ","1","."," ","S","c","h","e","d","u","l","i","n","g"," ","a","n","d"," ",
          "R","o","s","t","e","r","i","n","g">>,
        <<"S","t","d"," ","2","."," ","H","e","a","l","t","h"," ","a","n","d"," ","w","e","l","l",
          "b","e","i","n","g"," ","f","o","r"," ","p","e","r","f","o","r","m","e","d"," ","d","u",
          "t","y">>,
        <<"S","t","d"," ","3","."," ","T","r","a","i","n","i","n","g"," ","a","n","d"," ","E","d",
          "u","c","a","t","i","o","n">>,
        <<"S","t","d"," ","4","."," ","R","e","s","p","o","n","s","i","b","i","l","i","t","i","e",
          "s"," ","a","n","d"," ","m","a","n","a","g","e","m","e","n","t"," ","p","r","a","c","t",
          "i","c","e","s">>,
        <<"S","t","d"," ","5","."," ","I","n","t","e","r","n","a","l"," ","R","e","v","i","e","w">>,
        <<"S","t","d"," ","6","."," ","R","e","c","o","r","d","s"," ","a","n","d"," ","D","o","c",
          "u","m","e","n","t","a","t","i","o","n">>,
        <<"S","t","d"," ","7","."," ","W","o","r","k","p","l","a","c","e"," ","c","o","n","d","i",
          "t","i","o","n","s">> >>,
      columns |-> <<
        <<"F","A","T","I","G","U","E"," ","M","A","N","A","G","E","M","E","N","T">>,
        <<"D","E","T","A","I","L","S">> >>,
      context_keywords |-> <<
        <<"f","a","t","i","g","u","e">>,
        <<"s","u","m","m","a","r","y">>,
        <<"d","e","t","a","i","l","s">>,
        <<"a","u","d","i","t"," ","f","i","n","d","i","n","g","s">> >>,
      context_exclusions |-> <<>> ],
    \* Vehicle Registration Numbers Mass
    [ name |-> <<"V","e","h","i","c","l","e"," ","R","e","g","i","s","t","r","a","t","i","o","n",
                  " ","N","u","m","b","e","r","s"," ","M","a","s","s">>,
      headings |-> <<
        <<"V","e","h","i","c","l","e"," ","R","e","g","i","s","t","r","a","t","i","o","n"," ","N",
          "u","m","b","e","r","s"," ","o","f"," ","R","e","c","o","r","d","s"," ","E","x","a","m",
          "i","n","e","d">>,
        <<"M","A","S","S"," ","M","A","N","A","G","E","M","E","N","T">> >>,
      orientation |-> "row1",
      labels |-> <<
        <<"N","o",".">>,
        <<"R","e","g","i","s","t","r","a","t","i","o","n"," ","N","u","m","b","e","r">>,
        <<"S","u","b"," ","c","o","n","t","r","a","c","t","o","r">>,
        <<"S","u","b","-","c","o","n","t","r","a","c","t","e","d"," ","V","e","h","i","c","l","e",
          "s"," ","S","t","a","t","e","m","e","n","t"," ","o","f"," ","C","o","m","p","l","i","a",
          "n","c","e">>,
        <<"W","e","i","g","h","t"," ","V","e","r","i","f","i","c","a","t","i","o","n"," ","R","e",
          "c","o","r","d","s">>,
        <<"R","F","S"," ","S","u","s","p","e","n","s","i","o","n"," ","C","e","r","t","i","f","i",
          "c","a","t","i","o","n"," ","#">>,
        <<"S","u","s","p","e","n","s","i","o","n"," ","S","y","s","t","e","m"," ","M","a","i","n",
          "t","e","n","a","n","c","e">>,
        <<"T","r","i","p"," ","R","e","c","o","r","d","s">>,
        <<"F","a","u","l","t"," ","R","e","c","o","r","d","i","n","g","/"," ","R","e","p","o","r",
          "t","i","n","g"," ","o","n"," ","S","u","s","p","e","n","s","i","o","n"," ","S","y","s",
          "t","e","m">> >>,
      columns |-> <<>>,
      context_keywords |-> <<
        <<"m","a","s","s">>,
        <<"v","e","h","i","c","l","e"," ","r","e","g","i","s","t","r","a","t","i","o","n">>,
        <<"r","f","s"," ","s","u","s","p","e","n","s","i","o","n">>,
        <<"w","e","i","g","h","t"," ","v","e","r","i","f","i","c","a","t","i","o","n">> >>,
      context_exclusions |-> <<
        <<"m","a","i","n","t","e","n","a","n","c","e">>,
        <<"r","o","a","d","w","o","r","t","h","i","n","e","s","s">>,
        <<"d","a","i","l","y"," ","c","h","e","c","k","s">> >> ],
    \* Vehicle Registration Numbers Maintenance
    [ name |-> <<"V","e","h","i","c","l","e"," ","R","e","g","i","s","t","r","a","t","i","o","n",
                  " ","N","u","m","b","e","r","s"," ","M","a","i","n","t","e","n","a","n","c","e">>,
      headings |-> <<
        <<"V","e","h","i","c","l","e"," ","R","e","g","i","s","t","r","a","t","i","o","n"," ","N",
          "u","m","b","e","r","s"," ","o","f"," ","R","e","c","o","r","d","s"," ","E","x","a","m",
          "i","n","e","d">>,
        <<"M","a","i","n","t","e","n","a","n","c","e"," ","M","a","n","a","g","e","m","e","n","t">> >>,
      orientation |-> "row1",
      labels |-> <<
        <<"N","o",".">>,
        <<"R","e","g","i","s","t","r","a","t","i","o","n"," ","N","u","m","b","e","r">>,
        <<"R","o","a","d","w","o","r","t","h","i","n","e","s","s"," ","C","e","r","t","i","f","i",
          "c","a","t","e","s">>,
        <<"M","a","i","n","t","e","n","a","n","c","e"," ","R","e","c","o","r","d","s">>,
        <<"D","a","i","l","y"," ","C","h","e","c","k","s">>,
        <<"F","a","u","l","t"," ","R","e","c","o","r","d","i","n","g","/"," ","R","e","p","o","r",
          "t","i","n","g">>,
        <<"F","a","u","l","t"," ","R","e","p","a","i","r">> >>,
      columns |-> <<>>,
      context_keywords |-> <<
        <<"m","a","i","n","t","e","n","a","n","c","e">>,
        <<"v","e","h","i","c","l","e"," ","r","e","g","i","s","t","r","a","t","i","o","n">>,
        <<"r","o","a","d","w","o","r","t","h","i","n","e","s","s">>,
        <<"d","a","i","l","y"," ","c","h","e","c","k","s">> >>,
      context_exclusions |-> <<
        <<"m","a","s","s">>,
        <<"r","f","s"," ","s","u","s","p","e","n","s","i","o","n">>,
        <<"w","e","i","g","h","t"," ","v","e","r","i","f","i","c","a","t","i","o","n">> >> ],
    \* Driver / Scheduler Records Examined
    [ name |-> <<"D","r","i","v","e","r"," ","/"," ","S","c","h","e","d","u","l","e","r"," ","R",
                  "e","c","o","r","d","s"," ","E","x","a","m","i","n","e","d">>,
      headings |-> <<
        <<"D","r","i","v","e","r"," ","/"," ","S","c","h","e","d","u","l","e","r"," ","R","e","c",
          "o","r","d","s"," ","E","x","a","m","i","n","e","d">>,
        <<"F","A","T","I","G","U","E"," ","M","A","N","A","G","E","M","E","N","T">> >>,
      orientation |-> "row1",
      labels |-> <<
        <<"N","o",".">>,
        <<"D","r","i","v","e","r"," ","/"," ","S","c","h","e","d","u","l","e","r"," ","N","a","m",
          "e">>,
        <<"D","r","i","v","e","r"," ","T","L","I","F"," ","C","o","u","r","s","e"," ","#"," ","C",
          "o","m","p","l","e","t","e","d">>,
        <<"S","c","h","e","d","u","l","e","r"," ","T","L","I","F"," ","C","o","u","r","s","e"," ",
          "#"," ","C","o","m","p","l","e","t","e","d">>,
        <<"M","e","d","i","c","a","l"," ","C","e","r","t","i","f","i","c","a","t","e","s"," ","(",
          "C","u","r","r","e","n","t"," ","Y","e","s","/","N","o",")"," ","D","a","t","e"," ","o",
          "f"," ","e","x","p","i","r","y">>,
        <<"R","o","s","t","e","r"," ","/"," ","S","c","h","e","d","u","l","e"," ","/"," ","S","a",
          "f","e"," ","D","r","i","v","i","n","g"," ","P","l","a","n"," ","(","D","a","t","e"," ",
          "R","a","n","g","e",")">>,
        <<"F","i","t"," ","f","o","r"," ","D","u","t","y"," ","S","t","a","t","e","m","e","n","t",
          " ","C","o","m","p","l","e","t","e","d"," ","(","Y","e","s","/","N","o",")">>,
        <<"W","o","r","k"," ","D","i","a","r","y"," ","P","a","g","e","s"," ","(","P","a","g","e",
          " ","N","u","m","b","e","r","s",")"," ","E","l","e","c","t","r","o","n","i","c"," ","W",
          "o","r","k"," ","D","i","a","r","y"," ","R","e","c","o","r","d","s"," ","(","D","a","t",
          "e"," ","R","a","n","g","e",")">> >>,
      columns |-> <<>>,
      context_keywords |-> <<
        <<"d","r","i","v","e","r">>,
        <<"s","c","h","e","d","u","l","e","r">>,
        <<"f","a","t","i","g","u","e">> >>,
      context_exclusions |-> <<>> ],
    \* Operator's Name (legal entity)
    [ name |-> <<"O","p","e","r","a","t","o","r","'","s"," ","N","a","m","e"," ","(","l","e","g",
                  "a","l"," ","e","n","t","i","t","y",")">>,
      headings |-> <<
        <<"C","O","R","R","E","C","T","I","V","E"," ","A","C","T","I","O","N"," ","R","E","Q","U",
          "E","S","T"," ","(","C","A","R",")">> >>,
      orientation |-> "left",
      labels |-> <<
        <<"O","p","e","r","a","t","o","r","'","s"," ","N","a","m","e"," ","(","l","e","g","a","l",
          " ","e","n","t","i","t","y",")">> >>,
      columns |-> <<>>,
      context_keywords |-> <<>>,
      context_exclusions |-> <<>> ],
    \* Non-conformance and CAR details
    [ name |-> <<"N","o","n","-","c","o","n","f","o","r","m","a","n","c","e"," ","a","n","d"," ",
                  "C","A","R"," ","d","e","t","a","i","l","s">>,
      headings |-> <<>>,
      orientation |-> "left",
      labels |-> <<
        <<"N","o","n","-","c","o","n","f","o","r","m","a","n","c","e"," ","a","g","r","e","e","d",
          " ","c","l","o","s","e"," ","o","u","t"," ","d","a","t","e">>,
        <<"M","o","d","u","l","e"," ","a","n","d"," ","S","t","a","n","d","a","r","d">>,
        <<"C","o","r","r","e","c","t","i","v","e"," ","A","c","t","i","o","n"," ","R","e","q","u",
          "e","s","t"," ","(","C","A","R",")"," ","N","u","m","b","e","r">>,
        <<"O","b","s","e","r","v","e","d"," ","N","o","n","-","c","o","n","f","o","r","m","a","n",
          "c","e",":">>,
        <<"C","o","r","r","e","c","t","i","v","e"," ","A","c","t","i","o","n"," ","t","a","k","e",
          "n"," ","o","r"," ","t","o"," ","b","e"," ","t","a","k","e","n"," ","b","y"," ","o","p",
          "e","r","a","t","o","r",":">>,
        <<"O","p","e","r","a","t","o","r"," ","o","r"," ","R","e","p","r","e","s","e","n","t","a",
          "t","i","v","e"," ","S","i","g","n","a","t","u","r","e">>,
        <<"P","o","s","i","t","i","o","n">>,
        <<"D","a","t","e">>,
        <<"C","o","m","m","e","n","t","s",":">>,
        <<"A","u","d","i","t","o","r"," ","s","i","g","n","a","t","u","r","e">>,
        <<"D","a","t","e">> >>,
      columns |-> <<>>,
      context_keywords |-> <<
        <<"n","o","n","-","c","o","n","f","o","r","m","a","n","c","e">>,
        <<"c","o","r","r","e","c","t","i","v","e"," ","a","c","t","i","o","n">> >>,
      context_exclusions |-> <<>> ],
    \* NHVAS Approved Auditor Declaration
    [ name |-> <<"N","H","V","A","S"," ","A","p","p","r","o","v","e","d"," ","A","u","d","i","t",
                  "o","r"," ","D","e","c","l","a","r","a","t","i","o","n">>,
      headings |-> <<
        <<"N","H","V","A","S"," ","A","P","P","R","O","V","E","D"," ","A","U","D","I","T","O","R",
          " ","D","E","C","L","A","R","A","T","I","O","N">> >>,
      orientation |-> "row1",
      labels |-> <<
        <<"P","r","i","n","t"," ","N","a","m","e">>,
        <<"N","H","V","R"," ","o","r"," ","E","x","e","m","p","l","a","r"," ","G","l","o","b","a",
          "l"," ","A","u","d","i","t","o","r"," ","R","e","g","i","s","t","r","a","t","i","o","n",
          " ","N","u","m","b","e","r">> >>,
      columns |-> <<>>,
      context_keywords |-> <<
        <<"a","u","d","i","t","o","r"," ","d","e","c","l","a","r","a","t","i","o","n">>,
        <<"N","H","V","R">> >>,
      context_exclusions |-> <<
        <<"m","a","n","a","g","e","r">>,
        <<"o","p","e","r","a","t","o","r"," ","d","e","c","l","a","r","a","t","i","o","n">> >> ],
    \* Audit Declaration dates
    [ name |-> <<"A","u","d","i","t"," ","D","e","c","l","a","r","a","t","i","o","n"," ","d","a",
                  "t","e","s">>,
      headings |-> <<
        <<"A","u","d","i","t"," ","D","e","c","l","a","r","a","t","i","o","n"," ","d","a","t","e",
          "s">> >>,
      orientation |-> "left",
      labels |-> <<
        <<"A","u","d","i","t"," ","w","a","s"," ","c","o","n","d","u","c","t","e","d"," ","o","n">>,
        <<"U","n","c","o","n","d","i","t","i","o","n","a","l"," ","C","A","R","s"," ","c","l","o",
          "s","e","d"," ","o","u","t"," ","o","n",":">>,
        <<"C","o","n","d","i","t","i","o","n","a","l"," ","C","A","R","s"," ","t","o"," ","b","e",
          " ","c","l","o","s","e","d"," ","o","u","t"," ","b","y",":">> >>,
      columns |-> <<>>,
      context_keywords |-> <<>>,
      context_exclusions |-> <<>> ],
    \* Print accreditation name
    [ name |-> <<"P","r","i","n","t"," ","a","c","c","r","e","d","i","t","a","t","i","o","n"," ",
                  "n","a","m","e">>,
      headings |-> <<
        <<"(","p","r","i","n","t"," ","a","c","c","r","e","d","i","t","a","t","i","o","n"," ","n",
          "a","m","e",")">> >>,
      orientation |-> "left",
      labels |-> <<
        <<"(","p","r","i","n","t"," ","a","c","c","r","e","d","i","t","a","t","i","o","n"," ","n",
          "a","m","e",")">> >>,
      columns |-> <<>>,
      context_keywords |-> <<>>,
      context_exclusions |-> <<>> ],
    \* Operator Declaration
    [ name |-> <<"O","p","e","r","a","t","o","r"," ","D","e","c","l","a","r","a","t","i","o","n">>,
      headings |-> <<
        <<"O","p","e","r","a","t","o","r"," ","D","e","c","l","a","r","a","t","i","o","n">> >>,
      orientation |-> "row1",
      labels |-> <<
        <<"P","r","i","n","t"," ","N","a","m","e">>,
        <<"P","o","s","i","t","i","o","n"," ","T","i","t","l","e">> >>,
      columns |-> <<>>,
      context_keywords |-> <<
        <<"o","p","e","r","a","t","o","r"," ","d","e","c","l","a","r","a","t","i","o","n">>,
        <<"m","a","n","a","g","e","r">> >>,
      context_exclusions |-> <<
        <<"a","u","d","i","t","o","r">>,
        <<"n","h","v","a","s"," ","a","p","p","r","o","v","e","d">> >> ]
  >>


\* ------------------------------------------------------------------------
\* Schema matching  (extract_red_text.py).  A table of the red-text
\* extractor is [heading, rows]: heading is the text of the paragraph before
\* the table (_prev_para_text), rows are rows of cells as above.
\* ------------------------------------------------------------------------
RECURSIVE SumOf(_)
\* sum(xs)
SumOf(xs) == IF xs = <<>> THEN 0 ELSE xs[1] + SumOf(Tail(xs))
\* the number of positions of a list that satisfy a test
CountOf(xs, Test(_)) == Cardinality({k \in 1..Len(xs) : Test(xs[k])})

\* get_table_context (num_rows and num_cols are read by nothing)
get_table_context(tbl) ==
  [ heading |-> normalize_text(tbl.heading),
    headers |-> SelectSeq([c \in 1..Len(tbl.rows[1]) |->
                             normalize_text(cell_text(tbl.rows[1][c]))],
                          LAMBDA t : t # <<>>),
    col0 |-> SelectSeq([r \in 1..Len(tbl.rows) |->
                          normalize_text(cell_text(tbl.rows[r][1]))],
                       LAMBDA t : t # <<>>),
    first_cell |-> normalize_text(cell_text(tbl.rows[1][1])),
    all_cells |-> SelectSeq(ConcatAll([r \in 1..Len(tbl.rows) |->
                              [c \in 1..Len(tbl.rows[r]) |->
                                 normalize_text(cell_text(tbl.rows[r][c]))]]),
                            LAMBDA t : t # <<>>) ]

\* " ".join(context["headers"]).lower()
HeadersLower(context) == ToLower(JoinWith(context.headers, <<" ">>))
\* " ".join(context['headers']).lower() + " " + context['heading'].lower()
TableText(context) == HeadersLower(context) \o <<" ">> \o ToLower(context.heading)

\* looks_like_operator_declaration
looks_like_operator_declaration(context) ==
  /\ Contains(ToLower(Strip(context.heading)), <<"o","p","e","r","a","t","o","r"," ","d","e","c","l","a","r","a","t","i","o","n">>)
  /\ \E headers \in {HeadersLower(context)} :
       /\ Contains(headers, <<"p","r","i","n","t"," ","n","a","m","e">>)
       /\ Contains(headers, <<"p","o","s","i","t","i","o","n">>)
       /\ Contains(headers, <<"t","i","t","l","e">>)

\* a table that passes for the declaration of the auditor by its "Print Name"
\* header alone
print_name_headers(context) == Contains(HeadersLower(context), <<"p","r","i","n","t"," ","n","a","m","e">>)

\* looks_like_auditor_declaration
looks_like_auditor_declaration(context) ==
  /\ Contains(ToLower(Strip(context.heading)), <<"a","u","d","i","t","o","r"," ","d","e","c","l","a","r","a","t","i","o","n">>)
  /\ \E headers \in {HeadersLower(context)} :
       /\ Contains(headers, <<"p","r","i","n","t"," ","n","a","m","e">>)
       /\ \/ Contains(headers, <<"n","h","v","r">>)
          \/ Contains(headers, <<"a","u","d","i","t","o","r"," ","r","e","g","i","s","t","r","a","t","i","o","n"," ","n","u","m","b","e","r">>)

\* fuzzy_match_heading(heading, [pattern]): re.search of the pattern, ignoring
\* case, in the upper-cased heading.  The patterns of TABLE_SCHEMAS are plain
\* text but for "(" and ")", which group and match nothing themselves.
fuzzy_match_heading(heading, pattern) ==
  Contains(normalize_text(ToUpper(heading)), ToUpper(SelectChars(pattern, {"(", ")"})))

\* scores are kept as whole multiples of 1/ScoreUnit; ScoreUnit is a common
\* multiple of the label counts of TABLE_SCHEMAS (1..9 and 11)
ScoreUnit == 8 * 9 * 5 * 7 * 11

\* the Vehicle Registration boost
VehicleBoost(spec, table_text) ==
  IF ~Contains(spec.name, <<"V","e","h","i","c","l","e"," ","R","e","g","i","s","t","r","a","t","i","o","n">>) THEN 0
  ELSE CHOOSE res \in
         { IF n >= 2 THEN 150 ELSE IF n >= 1 THEN 75 ELSE 0 :
           n \in { CountOf(<<<<"r","e","g","i","s","t","r","a","t","i","o","n">>, <<"v","e","h","i","c","l","e">>, <<"s","u","b","-","c","o","n","t","r","a","c","t","o","r">>,
                             <<"w","e","i","g","h","t"," ","v","e","r","i","f","i","c","a","t","i","o","n">>, <<"r","f","s"," ","s","u","s","p","e","n","s","i","o","n">>>>,
                           LAMBDA keyword : Contains(table_text, keyword)) } } : TRUE

\* the boost of a Summary schema, and the penalty of the others, for a
\* DETAILS column
SummaryBoost(spec, headers) ==
  IF ~Contains(headers, <<"d","e","t","a","i","l","s">>) THEN 0
  ELSE IF Contains(spec.name, <<"S","u","m","m","a","r","y">>) THEN 100 ELSE 0 - 75

\* context exclusions and context keywords
ContextScore(spec, table_text) ==
  15 * CountOf(spec.context_keywords, LAMBDA keyword : Contains(table_text, ToLower(keyword)))
    - 50 * CountOf(spec.context_exclusions,
                   LAMBDA exclusion : Contains(table_text, ToLower(exclusion)))

\* direct first cell match and heading pattern
HeadingScore(spec, context) ==
  (IF context.first_cell # <<>> /\ ToUpper(context.first_cell) = ToUpper(spec.name)
   THEN 100 ELSE 0)
  + (IF \E k \in 1..Len(spec.headings) : fuzzy_match_heading(context.heading, spec.headings[k])
     THEN 50 ELSE 0)

\* column header matching
ColumnScore(spec, headers) ==
  CHOOSE res \in
    { IF spec.columns # <<>> /\ matches = Len(spec.columns) THEN 60 ELSE matches * 20 :
      matches \in { CountOf(spec.columns,
                      LAMBDA col : \E k \in 1..Len(headers) :
                                     Contains(headers[k], ToUpper(normalize_text(col)))) } } : TRUE

\* one is in the other
EitherContains(a, b) == Contains(a, b) \/ Contains(b, a)

\* twice the credit of one label of a row1 schema: 2 when a header holds the
\* label or the label a header, 1 when a word of the label of more than
\* three characters is in the headers, else 0
Row1Credit(lbl, headers, joined) ==
  IF \E k \in 1..Len(headers) : EitherContains(headers[k], lbl) THEN 2
  ELSE IF \E word \in {w \in Range(Tokens(lbl)) : Len(w) > 3} : Contains(joined, word) THEN 1
  ELSE 0

\* the label part of the score, in units of 1/ScoreUnit: (matches / len) * 30
\* for a left schema, (matches / len) * 40 for a row1 schema
LabelScore(spec, col0, headers) ==
  CHOOSE res \in
    { IF spec.orientation = "left"
      THEN 30 * (ScoreUnit \div Len(labels))
              * CountOf(labels, LAMBDA lbl : \E k \in 1..Len(col0) : EitherContains(col0[k], lbl))
      ELSE 20 * (ScoreUnit \div Len(labels))
              * SumOf([k \in 1..Len(labels) |-> Row1Credit(labels[k], headers, joined)]) :
      labels \in { [k \in 1..Len(spec.labels) |-> ToUpper(normalize_text(spec.labels[k]))] },
      joined \in { JoinWith(headers, <<" ">>) } } : TRUE

\* the special handling of the two declaration tables
DeclarationScore(spec, context) ==
  IF ToUpper(context.first_cell) # <<"P","R","I","N","T"," ","N","A","M","E">> THEN 0
  ELSE CHOOSE res \in
         { IF spec.name = <<"O","p","e","r","a","t","o","r"," ","D","e","c","l","a","r","a","t","i","o","n">>
           THEN IF Contains(ToUpper(context.heading), <<"O","P","E","R","A","T","O","R"," ","D","E","C","L","A","R","A","T","I","O","N">>) THEN 80
                ELSE IF manager THEN 60 ELSE 0
           ELSE IF spec.name = <<"N","H","V","A","S"," ","A","p","p","r","o","v","e","d"," ","A","u","d","i","t","o","r"," ","D","e","c","l","a","r","a","t","i","o","n">> /\ manager THEN 0 - 50
           ELSE 0 :
           manager \in { \E k \in 1..Len(context.all_cells) :
                           Contains(ToUpper(context.all_cells[k]), <<"M","A","N","A","G","E","R">>) } } : TRUE

\* calculate_schema_match_score, in units of 1/ScoreUnit
calculate_schema_match_score(spec, context) ==
  CHOOSE res \in
    { ScoreUnit * ( VehicleBoost(spec, table_text)
                    + SummaryBoost(spec, HeadersLower(context))
                    + ContextScore(spec, table_text)
                    + HeadingScore(spec, context)
                    + ColumnScore(spec, headers)
                    + DeclarationScore(spec, context) )
        + LabelScore(spec, [k \in 1..Len(context.col0) |-> ToUpper(context.col0[k])], headers) :
      table_text \in { TableText(context) },
      headers \in { [k \in 1..Len(context.headers) |-> ToUpper(context.headers[k])] } } : TRUE

\* the acceptance threshold of match_table_schema
MinScore == 20

\* the scores of a table against every schema, in schema order
SchemaScores(context) ==
  [k \in 1..Len(TABLE_SCHEMAS) |-> calculate_schema_match_score(TABLE_SCHEMAS[k], context)]

\* a schema that ties with the best so far takes over
TakesOverOrTies(score, best_score) == score >= best_score

\* if score > best_score
TakesOver(score, best_score) == score > best_score

RECURSIVE ScanSchemas(_, _, _)
\* the loop of match_table_schema over TABLE_SCHEMAS, from schema k on; best
\* is [score, match], (0, None) before the loop
ScanSchemas(scores, k, best) ==
  IF k > Len(scores) THEN best
  ELSE ScanSchemas(scores, k + 1,
         IF TakesOver(scores[k], best.score)
         THEN [score |-> scores[k], match |-> TABLE_SCHEMAS[k].name]
         ELSE best)

\* the end of match_table_schema: best_match when best_score reaches the
\* threshold, else None (<<>>)
BestSchema(scores) ==
  CHOOSE res \in
    { IF best.score >= MinScore * ScoreUnit THEN best.match ELSE <<>> :
      best \in { ScanSchemas(scores, 1, [score |-> 0, match |-> <<>>]) } } : TRUE

\* match_table_schema: the name of the schema, <<>> for None
match_table_schema(context) ==
  IF \E headers \in {HeadersLower(context)} :
       Contains(headers, <<"p","r","i","n","t"," ","n","a","m","e">>) /\ Contains(headers, <<"a","u","d","i","t","o","r">>)
  THEN <<"N","H","V","A","S"," ","A","p","p","r","o","v","e","d"," ","A","u","d","i","t","o","r"," ","D","e","c","l","a","r","a","t","i","o","n">>
  ELSE IF looks_like_auditor_declaration(context) THEN <<"N","H","V","A","S"," ","A","p","p","r","o","v","e","d"," ","A","u","d","i","t","o","r"," ","D","e","c","l","a","r","a","t","i","o","n">>
  ELSE IF looks_like_operator_declaration(context) THEN <<"O","p","e","r","a","t","o","r"," ","D","e","c","l","a","r","a","t","i","o","n">>
  ELSE BestSchema(SchemaScores(context))


\* ------------------------------------------------------------------------
\* Red-text extraction of a table  (extract_red_text.py).  The data of a
\* schema is a function label -> list of texts.
\* ------------------------------------------------------------------------
\* the items of a list without the repetitions of an earlier item
Dedupe(xs) ==
  ConcatAll([k \in 1..Len(xs) |->
               IF \E j \in 1..(k - 1) : xs[j] = xs[k] THEN <<>> ELSE <<xs[k]>>])

\* pairs is a list of <<label, text>> in the order in which the loops meet
\* them: the dict label -> texts, a text once per label when dedupe is set
Collected(pairs, dedupe) ==
  [ lbl \in {pairs[k][1] : k \in 1..Len(pairs)} |->
      CHOOSE res \in
        { IF dedupe THEN Dedupe(vals) ELSE vals :
          vals \in { ConcatAll([k \in 1..Len(pairs) |->
                       IF pairs[k][1] = lbl THEN <<pairs[k][2]>> ELSE <<>>]) } } : TRUE ]

\* the cells of rows first..last of a table in row-major order, as <<row, col>>
CellSeq(rows, first) ==
  ConcatAll([d \in 1..(Len(rows) - first + 1) |->
               [c \in 1..Len(rows[first + d - 1]) |-> <<first + d - 1, c>>]])

\* check_multi_schema_table: the table holds a label of the operator block
\* and a label of the contact block in its first column
check_multi_schema_table(context) ==
  /\ \E k \in 1..Len(context.col0) :
       \E op_lbl \in { <<"O","p","e","r","a","t","o","r"," ","n","a","m","e"," ","(","L","e","g","a","l"," ","e","n","t","i","t","y",")">>, <<"N","H","V","A","S"," ","A","c","c","r","e","d","i","t","a","t","i","o","n"," ","N","o",".">>,
                       <<"R","e","g","i","s","t","e","r","e","d"," ","t","r","a","d","i","n","g"," ","n","a","m","e","/","s">>, <<"A","u","s","t","r","a","l","i","a","n"," ","C","o","m","p","a","n","y"," ","N","u","m","b","e","r">>,
                       <<"N","H","V","A","S"," ","M","a","n","u","a","l">> } :
         Contains(ToUpper(context.col0[k]), ToUpper(op_lbl))
  /\ \E k \in 1..Len(context.col0) :
       \E cont_lbl \in { <<"O","p","e","r","a","t","o","r"," ","b","u","s","i","n","e","s","s"," ","a","d","d","r","e","s","s">>, <<"O","p","e","r","a","t","o","r"," ","P","o","s","t","a","l"," ","a","d","d","r","e","s","s">>,
                         <<"E","m","a","i","l"," ","a","d","d","r","e","s","s">>, <<"O","p","e","r","a","t","o","r"," ","T","e","l","e","p","h","o","n","e"," ","N","u","m","b","e","r">> } :
         Contains(ToUpper(context.col0[k]), ToUpper(cont_lbl))

\* the schema with a name
SchemaNamed(name) ==
  TABLE_SCHEMAS[CHOOSE k \in 1..Len(TABLE_SCHEMAS) : TABLE_SCHEMAS[k].name = name]

\* "".join(run.text for p in cell.paragraphs for run in p.runs
\*         if is_red_font(run)).strip()
CellRedJoined(cell) ==
  Strip(ConcatAll([i \in 1..Len(cell) |->
          ConcatAll([j \in 1..Len(cell[i]) |->
            IF is_red_font(cell[i][j]) THEN cell[i][j].text ELSE <<>>])]))

\* the first label of the schema that is, holds or is held by the first cell
\* of the row; <<>> when there is none
MultiRowLabel(row, labels) ==
  CHOOSE res \in
    { IF hits = {} THEN <<>> ELSE labels[MinOf(hits)] :
      hits \in { { k \in 1..Len(labels) :
                     EitherContains(ToUpper(normalize_text(labels[k])),
                                    ToUpper(normalize_text(cell_text(row[1])))) } } } : TRUE

\* extract_multi_schema_table for one schema: the rows after the first that
\* belong to the schema give their red texts, each once per label
MultiSchemaData(rows, spec) ==
  Collected(
    SelectSeq([k \in 1..Len(CellSeq(rows, 2)) |->
                 CHOOSE res \in
                   { << MultiRowLabel(rows[rc[1]], spec.labels),
                        CellRedJoined(rows[rc[1]][rc[2]]) >> :
                     rc \in {CellSeq(rows, 2)[k]} } : TRUE],
              LAMBDA p : p[1] # <<>> /\ p[2] # <<>>),
    TRUE)

\* extract_multi_schema_table: schema name -> data, for the schemas with data
extract_multi_schema_table(rows, schemas) ==
  CHOOSE res \in
    { [name \in {n \in schemas : data[n] # <<>>} |-> data[name]] :
      data \in { [n \in schemas |-> MultiSchemaData(rows, SchemaNamed(n))] } } : TRUE


\* LABEL_ALIASES
LABEL_ALIASES ==
  ( <<"r","o","a","d","w","o","r","t","h","i","n","e","s","s"," ","c","e","r","t","i","f","i","c","a","t","e","s">> :> <<"R","o","a","d","w","o","r","t","h","i","n","e","s","s"," ","C","e","r","t","i","f","i","c","a","t","e","s">> ) @@
  ( <<"m","a","i","n","t","e","n","a","n","c","e"," ","r","e","c","o","r","d","s">> :> <<"M","a","i","n","t","e","n","a","n","c","e"," ","R","e","c","o","r","d","s">> ) @@
  ( <<"d","a","i","l","y"," ","c","h","e","c","k","s">> :> <<"D","a","i","l","y"," ","C","h","e","c","k","s">> ) @@
  ( <<"f","a","u","l","t"," ","r","e","c","o","r","d","i","n","g"," ","/"," ","r","e","p","o","r","t","i","n","g">> :> <<"F","a","u","l","t"," ","R","e","c","o","r","d","i","n","g","/"," ","R","e","p","o","r","t","i","n","g">> ) @@
  ( <<"f","a","u","l","t"," ","r","e","p","a","i","r">> :> <<"F","a","u","l","t"," ","R","e","p","a","i","r">> ) @@
  ( <<"s","u","b"," ","c","o","n","t","r","a","c","t","e","d"," ","v","e","h","i","c","l","e","s"," ","s","t","a","t","e","m","e","n","t"," ","o","f"," ","c","o","m","p","l","i","a","n","c","e">> :>
      <<"S","u","b","-","c","o","n","t","r","a","c","t","e","d"," ","V","e","h","i","c","l","e","s"," ","S","t","a","t","e","m","e","n","t"," ","o","f"," ","C","o","m","p","l","i","a","n","c","e">> ) @@
  ( <<"w","e","i","g","h","t"," ","v","e","r","i","f","i","c","a","t","i","o","n"," ","r","e","c","o","r","d","s">> :> <<"W","e","i","g","h","t"," ","V","e","r","i","f","i","c","a","t","i","o","n"," ","R","e","c","o","r","d","s">> ) @@
  ( <<"r","f","s"," ","s","u","s","p","e","n","s","i","o","n"," ","c","e","r","t","i","f","i","c","a","t","i","o","n"," ","#">> :> <<"R","F","S"," ","S","u","s","p","e","n","s","i","o","n"," ","C","e","r","t","i","f","i","c","a","t","i","o","n"," ","#">> ) @@
  ( <<"s","u","s","p","e","n","s","i","o","n"," ","s","y","s","t","e","m"," ","m","a","i","n","t","e","n","a","n","c","e">> :> <<"S","u","s","p","e","n","s","i","o","n"," ","S","y","s","t","e","m"," ","M","a","i","n","t","e","n","a","n","c","e">> ) @@
  ( <<"t","r","i","p"," ","r","e","c","o","r","d","s">> :> <<"T","r","i","p"," ","R","e","c","o","r","d","s">> ) @@
  ( <<"f","a","u","l","t"," ","r","e","c","o","r","d","i","n","g","/"," ","r","e","p","o","r","t","i","n","g"," ","o","n"," ","s","u","s","p","e","n","s","i","o","n"," ","s","y","s","t","e","m">> :>
      <<"F","a","u","l","t"," ","R","e","c","o","r","d","i","n","g","/"," ","R","e","p","o","r","t","i","n","g"," ","o","n"," ","S","u","s","p","e","n","s","i","o","n"," ","S","y","s","t","e","m">> ) @@
  ( <<"r","e","g","i","s","t","r","a","t","i","o","n"," ","n","u","m","b","e","r">> :> <<"R","e","g","i","s","t","r","a","t","i","o","n"," ","N","u","m","b","e","r">> ) @@
  ( <<"n","o",".">> :> <<"N","o",".">> ) @@
  ( <<"s","u","b"," ","c","o","n","t","r","a","c","t","o","r">> :> <<"S","u","b"," ","c","o","n","t","r","a","c","t","o","r">> ) @@
  ( <<"s","u","b","-","c","o","n","t","r","a","c","t","o","r">> :> <<"S","u","b"," ","c","o","n","t","r","a","c","t","o","r">> )

\* canonicalize_label
canonicalize_label(s) ==
  CHOOSE res \in
    { IF key \in DOMAIN LABEL_ALIASES THEN LABEL_ALIASES[key] ELSE s :
      key \in { CollapseSpaces(ToLower(normalize_header_label(s))) } } : TRUE

\* the words of bag_similarity: the pieces between runs of characters outside
\* [A-Za-z0-9#] that are longer than two characters or are "#" or "no"
BagWords(a) ==
  { w \in Range(Tokens(MapNonMatching(ToLower(normalize_header_label(a)), CanonKeep))) :
      Len(w) > 2 \/ w \in { <<"#">>, <<"n","o">> } }

\* bag_similarity as the fraction <<numerator, denominator>>; <<0, 1>> when a
\* bag is empty
bag_similarity(a, b) ==
  CHOOSE res \in
    { IF aw = {} \/ bw = {} THEN <<0, 1>>
      ELSE << Cardinality(aw \cap bw),
              IF Cardinality(aw) >= Cardinality(bw) THEN Cardinality(aw) ELSE Cardinality(bw) >> :
      aw \in {BagWords(a)}, bw \in {BagWords(b)} } : TRUE

\* fraction p is greater than fraction q
FracGreater(p, q) == p[1] * q[2] > q[1] * p[2]

\* the label a header cell stands for: by alias, else the label of the best
\* bag similarity if that is 0.40 or more; <<>> when the column is not mapped
HeaderLabel(header_text, labels) ==
  CHOOSE res \in
    { IF \E k \in 1..Len(labels) : canons[k] = want
      THEN \* canonical_labels is a dict: the last label of a canonical form
           labels[MaxOf({k \in 1..Len(labels) : canons[k] = want})]
      ELSE CHOOSE r \in
             { IF \A k \in 1..Len(labels) : sims[k][1] = 0 THEN <<>>
               ELSE CHOOSE lab \in
                      { IF 5 * sims[b][1] >= 2 * sims[b][2]
                        THEN labels[MaxOf({k \in 1..Len(labels) : canons[k] = canons[b]})]
                        ELSE <<>> :
                        b \in { CHOOSE k \in 1..Len(labels) :
                                  /\ \A j \in 1..Len(labels) : ~FracGreater(sims[j], sims[k])
                                  /\ \A j \in 1..(k - 1) : FracGreater(sims[k], sims[j]) } } : TRUE :
               sims \in { [k \in 1..Len(labels) |-> bag_similarity(header_text, canons[k])] } } : TRUE :
      canons \in { [k \in 1..Len(labels) |-> canonicalize_label(labels[k])] },
      want \in { canonicalize_label(header_text) } } : TRUE

\* column_mapping: for each cell of the header row the label it is mapped to,
\* <<>> when it is not mapped (an empty header is not)
column_mapping(header_row, labels) ==
  [c \in 1..Len(header_row) |->
     CHOOSE res \in
       { IF header_text = <<>> THEN <<>> ELSE HeaderLabel(header_text, labels) :
         header_text \in { normalize_header_label(normalize_text(cell_text(header_row[c]))) } } : TRUE]

\* str(n) for a column index below ten
DigitText(n) == <<<<"0","1","2","3","4","5","6","7","8","9">>[n + 1]>>

\* the key of the unmapped bucket for column c (counted from 1)
UnmappedKey(header_row, c) ==
  <<"U","N","M","A","P","P","E","D",":",":">> \o
    (IF c <= Len(header_row) THEN normalize_text(cell_text(header_row[c]))
     ELSE <<"(","u","n","m","a","p","p","e","d"," ","c","o","l"," ">> \o DigitText(c - 1) \o <<")">>)

\* the per-row branches of extract_table_data (Operator Declaration, Vehicle
\* Registration, Driver / Scheduler): every red text of a data row goes to
\* the label of its column; with keep_unmapped (the last two) the texts of
\* the other columns go to an UNMAPPED:: bucket, else they are dropped
ExtractByColumns(rows, labels, keep_unmapped) ==
  IF Len(rows) < 2 THEN <<>>
  ELSE CHOOSE res \in
         { Collected(
             SelectSeq([k \in 1..Len(cells) |->
                          CHOOSE p \in
                            { << IF rc[2] <= Len(mapping) /\ mapping[rc[2]] # <<>>
                                 THEN mapping[rc[2]]
                                 ELSE IF keep_unmapped THEN UnmappedKey(rows[1], rc[2])
                                 ELSE <<>>,
                                 CellRedText(rows[rc[1]][rc[2]]) >> :
                              rc \in {cells[k]} } : TRUE],
                       LAMBDA p : p[1] # <<>> /\ p[2] # <<>>),
             FALSE) :
           mapping \in { column_mapping(rows[1], labels) },
           cells \in { CellSeq(rows, 2) } } : TRUE

\* the generic branch of extract_table_data: a red text goes to the label of
\* its column (row1) or of its row (left), else to the schema name, once per
\* label
ExtractGeneric(rows, spec) ==
  CHOOSE res \in
    { Collected(
        SelectSeq([k \in 1..Len(cells) |->
                     CHOOSE p \in
                       { << IF spec.orientation = "row1"
                            THEN IF rc[2] <= Len(spec.labels) THEN spec.labels[rc[2]]
                                 ELSE spec.name
                            ELSE OrStr(RowLabel(rows[rc[1]], spec.labels), spec.name),
                            CellRedText(rows[rc[1]][rc[2]]) >> :
                         rc \in {cells[k]} } : TRUE],
                  LAMBDA p : p[2] # <<>>),
        TRUE) :
      cells \in { CellSeq(rows, IF spec.orientation = "row1" THEN 2 ELSE 1) } } : TRUE

\* extract_table_data
extract_table_data(rows, spec) ==
  IF spec.name = <<"O","p","e","r","a","t","o","r"," ","D","e","c","l","a","r","a","t","i","o","n">> THEN ExtractByColumns(rows, spec.labels, FALSE)
  ELSE IF Contains(spec.name, <<"V","e","h","i","c","l","e"," ","R","e","g","i","s","t","r","a","t","i","o","n">>) \/ Contains(spec.name, <<"D","r","i","v","e","r"," ","/"," ","S","c","h","e","d","u","l","e","r">>)
  THEN ExtractByColumns(rows, spec.labels, TRUE)
  ELSE ExtractGeneric(rows, spec)


\* idx_print: the first header with "print name" (counted from 1), 0 for None
idx_print(headers_norm) ==
  CHOOSE res \in
    { IF hits = {} THEN 0 ELSE MinOf(hits) :
      hits \in { { c \in 1..Len(headers_norm) :
                     Contains(headers_norm[c], <<"p","r","i","n","t"," ","n","a","m","e">>) } } } : TRUE

\* idx_pos: the first header with "position title", else the first with
\* "position" and "title", 0 for None
idx_pos(headers_norm) ==
  CHOOSE res \in
    { IF exact # {} THEN MinOf(exact) ELSE IF loose # {} THEN MinOf(loose) ELSE 0 :
      exact \in { { c \in 1..Len(headers_norm) :
                      Contains(headers_norm[c], <<"p","o","s","i","t","i","o","n"," ","t","i","t","l","e">>) } },
      loose \in { { c \in 1..Len(headers_norm) :
                      /\ Contains(headers_norm[c], <<"p","o","s","i","t","i","o","n">>)
                      /\ Contains(headers_norm[c], <<"t","i","t","l","e">>) } } } : TRUE

\* the red text of cell c of a row, <<>> when the row is shorter
RedAt(row, c) == IF c <= Len(row) THEN CellRedText(row[c]) ELSE <<>>

\* the data extract_operator_declaration_by_headers_from_end takes from one
\* table: the red texts of the "Print Name" column and of the "Position
\* Title" column; <<>> when the header row lacks either or nothing is red
DeclarationByHeaders(rows) ==
  IF Len(rows) < 2 THEN <<>>
  ELSE CHOOSE res \in
         { IF cols[1] = 0 \/ cols[2] = 0 THEN <<>>
           ELSE Collected(
                  SelectSeq(
                    ConcatAll([d \in 1..(Len(rows) - 1) |->
                      << << <<"P","r","i","n","t"," ","N","a","m","e">>, RedAt(rows[d + 1], cols[1]) >>,
                         << <<"P","o","s","i","t","i","o","n"," ","T","i","t","l","e">>, RedAt(rows[d + 1], cols[2]) >> >>]),
                    LAMBDA p : p[2] # <<>>),
                  FALSE) :
           cols \in { CHOOSE c \in { <<idx_print(headers_norm), idx_pos(headers_norm)>> :
                         headers_norm \in { [c \in 1..Len(rows[1]) |->
                           ToLower(normalize_header_label(cell_text(rows[1][c])))] } } : TRUE } } : TRUE

\* extract_operator_declaration_by_headers_from_end: the data of the last
\* table that gives any; <<>> for None
extract_operator_declaration_by_headers_from_end(tables) ==
  CHOOSE res \in
    { IF \A k \in 1..Len(data) : data[k] = <<>> THEN <<>>
      ELSE data[MaxOf({k \in 1..Len(data) : data[k] # <<>>})] :
      data \in { [k \in 1..Len(tables) |-> DeclarationByHeaders(tables[k].rows)] } } : TRUE

\* out[schema] takes the data: the lists of a schema already there are
\* extended, label by label
MergeData(acc, schema, data) ==
  IF data = <<>> THEN acc
  ELSE IF schema \notin DOMAIN acc THEN Put(acc, schema, data)
  ELSE Put(acc, schema,
           [k \in DOMAIN acc[schema] \cup DOMAIN data |->
              IF k \notin DOMAIN data THEN acc[schema][k]
              ELSE IF k \notin DOMAIN acc[schema] THEN data[k]
              ELSE acc[schema][k] \o data[k]])

\* the update of out by the data of one table: schema name -> data, a schema
\* without data adds nothing
MergeAll(acc, data) ==
  [ schema \in DOMAIN acc \cup {k \in DOMAIN data : data[k] # <<>>} |->
      MergeData(acc, schema, Get(data, schema, <<>>))[schema] ]

\* the fallback at the end of extract_red_text
WithFallback(acc, tables) ==
  IF <<"O","p","e","r","a","t","o","r"," ","D","e","c","l","a","r","a","t","i","o","n">> \in DOMAIN acc THEN acc
  ELSE MergeData(acc, <<"O","p","e","r","a","t","o","r"," ","D","e","c","l","a","r","a","t","i","o","n">>,
                 extract_operator_declaration_by_headers_from_end(tables))

\* one round of the table loop of extract_red_text: [multi, schema, data]
\* with data a function schema name -> data of that schema
RedTableStep(tbl) ==
  CHOOSE res \in
    { IF check_multi_schema_table(context)
      THEN [multi |-> TRUE, schema |-> <<>>,
            data |-> extract_multi_schema_table(tbl.rows,
                       {<<"O","p","e","r","a","t","o","r"," ","I","n","f","o","r","m","a","t","i","o","n">>, <<"O","p","e","r","a","t","o","r"," ","c","o","n","t","a","c","t"," ","d","e","t","a","i","l","s">>})]
      ELSE CHOOSE r \in
             { [multi |-> FALSE, schema |-> schema,
                data |-> IF schema = <<>> THEN <<>>
                         ELSE CHOOSE d \in
                                { IF x = <<>> THEN <<>> ELSE (schema :> x) :
                                  x \in {extract_table_data(tbl.rows, SchemaNamed(schema))} } : TRUE] :
               schema \in {match_table_schema(context)} } : TRUE :
      context \in {get_table_context(tbl)} } : TRUE


\* ------------------------------------------------------------------------
\* extract_red_text as a state machine: one document at a time, its tables
\* in order, then the attachment of the paragraphs and the fallback.  The
\* body paragraphs of the documents are the headings before the tables;
\* none has a red run, so the paragraph loop collects nothing.
\* ------------------------------------------------------------------------
MaxTables == 2

BlackCell(text) == << << [text |-> text, rgb |-> <<>>] >> >>
RedCell(text) == << << [text |-> text, rgb |-> RED] >> >>

\* Scenario B: the declaration of the operator, signed by a manager
TblOperatorDeclaration ==
  [ heading |-> <<"O","p","e","r","a","t","o","r"," ","D","e","c","l","a","r","a","t","i","o","n">>,
    rows |-> << << BlackCell(<<"P","r","i","n","t"," ","N","a","m","e">>), BlackCell(<<"P","o","s","i","t","i","o","n"," ","T","i","t","l","e">>) >>,
                << RedCell(<<"A","n","n"," ","L","e","e">>), RedCell(<<"M","a","n","a","g","e","r">>) >> >> ]

\* Scenario B with data cells that name an auditor
TblOperatorDeclarationAuditor ==
  [ heading |-> <<"O","p","e","r","a","t","o","r"," ","D","e","c","l","a","r","a","t","i","o","n">>,
    rows |-> << << BlackCell(<<"P","r","i","n","t"," ","N","a","m","e">>), BlackCell(<<"P","o","s","i","t","i","o","n"," ","T","i","t","l","e">>) >>,
                << RedCell(<<"N","H","V","R"," ","A","u","d","i","t","o","r">>), RedCell(<<"A","u","d","i","t","o","r"," ","R","e","g","i","s","t","r","a","t","i","o","n"," ","N","u","m","b","e","r">>) >> >> ]

\* the declaration of the auditor; the registration number is typed digit
\* by digit
TblAuditorDeclaration ==
  [ heading |-> <<"N","H","V","A","S"," ","A","P","P","R","O","V","E","D"," ","A","U","D","I","T","O","R"," ","D","E","C","L","A","R","A","T","I","O","N">>,
    rows |-> << << BlackCell(<<"P","r","i","n","t"," ","N","a","m","e">>),
                   BlackCell(<<"N","H","V","R"," ","o","r"," ","E","x","e","m","p","l","a","r"," ","G","l","o","b","a","l"," ","A","u","d","i","t","o","r"," ","R","e","g","i","s","t","r","a","t","i","o","n"," ","N","u","m","b","e","r">>) >>,
                << RedCell(<<"B","o","b"," ","R","o","e">>),
                   << << [text |-> <<"4">>, rgb |-> RED], [text |-> <<"5">>, rgb |-> RED] >> >> >> >> ]

\* two rows of the operator block and of the contact block in one table
TblOperatorAndContact ==
  [ heading |-> <<>>,
    rows |-> << << BlackCell(<<"N","H","V","A","S"," ","M","a","n","u","a","l">>), RedCell(<<"M","a","h","l","o">>) >>,
                << BlackCell(<<"E","m","a","i","l"," ","a","d","d","r","e","s","s">>), RedCell(<<"a","@","b",".","c">>) >> >> ]

\* a table of no schema
TblRemarks ==
  [ heading |-> <<"N","o","t","e","s">>,
    rows |-> << << BlackCell(<<"R","e","m","a","r","k","s">>), RedCell(<<"n","o","n","e">>) >> >> ]

\* a declaration table with a third column for the auditor
TblSignatures ==
  [ heading |-> <<>>,
    rows |-> << << BlackCell(<<"P","r","i","n","t"," ","N","a","m","e">>), BlackCell(<<"P","o","s","i","t","i","o","n"," ","T","i","t","l","e">>),
                   BlackCell(<<"A","u","d","i","t","o","r">>) >>,
                << RedCell(<<"C","y"," ","D","a","y">>), RedCell(<<"O","w","n","e","r">>), RedCell(<<"D","e","e"," ","R","a","y">>) >> >> ]

\* a maintenance vehicle table with a column of no label
TblVehicles ==
  [ heading |-> <<"V","e","h","i","c","l","e"," ","R","e","g","i","s","t","r","a","t","i","o","n"," ","N","u","m","b","e","r","s"," ","o","f"," ","R","e","c","o","r","d","s"," ","E","x","a","m","i","n","e","d">>,
    rows |-> << << BlackCell(<<"N","o",".">>), BlackCell(<<"R","e","g","i","s","t","r","a","t","i","o","n"," ","N","u","m","b","e","r">>),
                   BlackCell(<<"D","a","i","l","y"," ","C","h","e","c","k","s">>), BlackCell(<<"S","e","e","n"," ","b","y">>) >>,
                << RedCell(<<"1">>), RedCell(<<"A","B","C","1","2","3">>), RedCell(<<"1","/","2","/","2","3">>), RedCell(<<"E","v","e">>) >> >> ]

\* the dates of the declaration, by row
TblDates ==
  [ heading |-> <<"A","u","d","i","t"," ","D","e","c","l","a","r","a","t","i","o","n"," ","d","a","t","e","s">>,
    rows |-> << << BlackCell(<<"A","u","d","i","t"," ","w","a","s"," ","c","o","n","d","u","c","t","e","d"," ","o","n">>), RedCell(<<"D","a","t","e">>) >>,
                << BlackCell(<<"U","n","c","o","n","d","i","t","i","o","n","a","l"," ","C","A","R","s"," ","c","l","o","s","e","d"," ","o","u","t"," ","o","n",":">>), RedCell(<<"D","a","t","e">>) >> >> ]

\* a table under the heading of the summary report with no label of any
\* schema: the schemas 'Tick as appropriate' and 'Attendance List (Names and
\* Position Titles)' score the same
TblSummaryReport ==
  [ heading |-> <<"N","H","V","A","S"," ","A","u","d","i","t"," ","S","u","m","m","a","r","y"," ","R","e","p","o","r","t">>,
    rows |-> << << BlackCell(<<"I","t","e","m">>), RedCell(<<"n","o","n","e">>) >> >> ]

\* an operator declaration with a column of no label
TblOperatorDeclarationDated ==
  [ heading |-> <<"O","p","e","r","a","t","o","r"," ","D","e","c","l","a","r","a","t","i","o","n">>,
    rows |-> << << BlackCell(<<"P","r","i","n","t"," ","N","a","m","e">>), BlackCell(<<"P","o","s","i","t","i","o","n"," ","T","i","t","l","e">>), BlackCell(<<"S","i","g","n","e","d">>) >>,
                << RedCell(<<"A","n","n"," ","L","e","e">>), RedCell(<<"M","a","n","a","g","e","r">>), RedCell(<<"1","/","2","/","2","3">>) >> >> ]

TableMenu ==
  { TblOperatorDeclaration, TblOperatorDeclarationAuditor, TblAuditorDeclaration,
    TblOperatorAndContact, TblRemarks, TblSignatures, TblVehicles, TblDates,
    TblSummaryReport, TblOperatorDeclarationDated }

\* the rounds of the table loop for the tables of the menu
MenuSteps == [tbl \in TableMenu |-> RedTableStep(tbl)]
StepOf(tbl) == IF tbl \in TableMenu THEN MenuSteps[tbl] ELSE RedTableStep(tbl)

RtInit ==
  /\ red_doc \in UNION { [1..n -> TableMenu] : n \in 1..MaxTables }
  /\ table_count = 0
  /\ matched = <<>>
  /\ red_out = <<>>
  /\ red_pc = "tables"
  /\ PipeIdle /\ ExtIdle /\ WrIdle /\ MgIdle

\* the table holds both blocks: extract_multi_schema_table
ExtractMultiSchema ==
  /\ red_pc = "tables" /\ table_count < Len(red_doc)
  /\ \E step \in {StepOf(red_doc[table_count + 1])} :
       /\ step.multi
       /\ matched' = Append(matched, [multi |-> TRUE, schema |-> <<>>])
       /\ red_out' = MergeAll(red_out, step.data)
  /\ table_count' = table_count + 1
  /\ UNCHANGED <<red_doc, red_pc>> /\ RtFrame

\* match_table_schema names a schema: extract_table_data
ExtractMatched ==
  /\ red_pc = "tables" /\ table_count < Len(red_doc)
  /\ \E step \in {StepOf(red_doc[table_count + 1])} :
       /\ ~step.multi /\ step.schema # <<>>
       /\ matched' = Append(matched, [multi |-> FALSE, schema |-> step.schema])
       /\ red_out' = MergeAll(red_out, step.data)
  /\ table_count' = table_count + 1
  /\ UNCHANGED <<red_doc, red_pc>> /\ RtFrame

\* match_table_schema returns None: the table is passed over
SkipTable ==
  /\ red_pc = "tables" /\ table_count < Len(red_doc)
  /\ \E step \in {StepOf(red_doc[table_count + 1])} :
       /\ ~step.multi /\ step.schema = <<>>
       /\ matched' = Append(matched, [multi |-> FALSE, schema |-> <<>>])
  /\ table_count' = table_count + 1
  /\ UNCHANGED <<red_doc, red_out, red_pc>> /\ RtFrame

\* after the last table: the fallback for the Operator Declaration
AttachFallback ==
  /\ red_pc = "tables" /\ table_count = Len(red_doc)
  /\ red_out' = WithFallback(red_out, red_doc)
  /\ red_pc' = "done"
  /\ UNCHANGED <<red_doc, table_count, matched>> /\ RtFrame

RtNext == ExtractMultiSchema \/ ExtractMatched \/ SkipTable \/ AttachFallback

SpecRedText == RtInit /\ [][RtNext]_vars


\* ------------------------------------------------------------------------
\* Properties of the red-text extractor
\* ------------------------------------------------------------------------
\* the texts of the cells of a row
RowTexts(row) == [c \in 1..Len(row) |-> cell_text(row[c])]

\* Scenario B: the heading reads 'Operator Declaration' and the header row is
\* ['Print Name', 'Position Title']
IsScenarioB(tbl) ==
  /\ tbl.heading = <<"O","p","e","r","a","t","o","r"," ","D","e","c","l","a","r","a","t","i","o","n">>
  /\ RowTexts(tbl.rows[1]) = << <<"P","r","i","n","t"," ","N","a","m","e">>, <<"P","o","s","i","t","i","o","n"," ","T","i","t","l","e">> >>

\* C11: every Scenario B table that extract_red_text has handled was given
\* to the schema 'Operator Declaration' by match_table_schema, never to
\* 'NHVAS Approved Auditor Declaration', whatever its data cells hold.
C11_ScenarioBIsOperatorDeclaration ==
  \A k \in 1..Len(matched) :
    IsScenarioB(red_doc[k])
      => /\ matched[k] = [multi |-> FALSE, schema |-> <<"O","p","e","r","a","t","o","r"," ","D","e","c","l","a","r","a","t","i","o","n">>]
         /\ match_table_schema(get_table_context(red_doc[k]))
              # <<"N","H","V","A","S"," ","A","p","p","r","o","v","e","d"," ","A","u","d","i","t","o","r"," ","D","e","c","l","a","r","a","t","i","o","n">>

\* a Scenario B table with 'Manager' in a data cell, and one whose data cells
\* name an auditor, were both classified
C11_Witness ==
  /\ Len(matched) = 2
  /\ red_doc = << TblOperatorDeclaration, TblOperatorDeclarationAuditor >>
  /\ \E c \in 1..2 : Contains(cell_text(red_doc[1].rows[2][c]), <<"M","a","n","a","g","e","r">>)

\* the table scores below the threshold against every schema
LowScoring(tbl) ==
  \E scores \in {SchemaScores(get_table_context(tbl))} :
    \A k \in 1..Len(scores) : scores[k] < MinScore * ScoreUnit

\* the red texts of the cells of a table
RedTextsOf(tbl) ==
  UNION { { CellRedText(tbl.rows[r][c]) : c \in 1..Len(tbl.rows[r]) } :
          r \in 1..Len(tbl.rows) } \ {<<>>}

\* the texts of the field map
OutTexts ==
  UNION { UNION { Range(red_out[schema][lbl]) : lbl \in DOMAIN red_out[schema] } :
          schema \in DOMAIN red_out }

\* the scores of the tables of the menu
MenuScores == [tbl \in TableMenu |-> SchemaScores(get_table_context(tbl))]
ScoresOf(tbl) ==
  IF tbl \in TableMenu THEN MenuScores[tbl] ELSE SchemaScores(get_table_context(tbl))

\* one of the declaration checks that match_table_schema makes before it
\* scores the schemas fires
DeclarationPreCheck(context) ==
  \/ /\ Contains(HeadersLower(context), <<"p","r","i","n","t"," ","n","a","m","e">>)
     /\ Contains(HeadersLower(context), <<"a","u","d","i","t","o","r">>)
  \/ looks_like_auditor_declaration(context)
  \/ looks_like_operator_declaration(context)

\* the schemas that share the highest score of a table
TopSchemas(scores) ==
  {k \in 1..Len(scores) : \A j \in 1..Len(scores) : scores[j] <= scores[k]}

\* the tables handled so far that went through the scoring of
\* match_table_schema
ScoredTables ==
  {k \in 1..Len(matched) :
     ~matched[k].multi /\ ~DeclarationPreCheck(get_table_context(red_doc[k]))}

\* C21: a table for which no declaration check fires is given the schema of
\* the highest score when that score is 20 or more, the first of them in
\* TABLE_SCHEMAS when several schemas share it, and no schema otherwise.
C21_HighestScoreFirstRegistered ==
  \A k \in ScoredTables :
    \E top \in {TopSchemas(ScoresOf(red_doc[k]))} :
      IF ScoresOf(red_doc[k])[MinOf(top)] >= MinScore * ScoreUnit
      THEN matched[k].schema = TABLE_SCHEMAS[MinOf(top)].name
      ELSE matched[k].schema = <<>>

\* a table on which two schemas share a highest score of 20 or more and a
\* table that scores below 20 were both handled
C21_Witness ==
  /\ Len(matched) = 2
  /\ ScoredTables = {1, 2}
  /\ Cardinality(TopSchemas(ScoresOf(red_doc[1]))) >= 2
  /\ ScoresOf(red_doc[1])[MinOf(TopSchemas(ScoresOf(red_doc[1])))] >= MinScore * ScoreUnit
  /\ matched[1].schema = TABLE_SCHEMAS[1].name
  /\ LowScoring(red_doc[2]) /\ matched[2].schema = <<>>

\* no value is twice in the list
NoDuplicates(xs) == \A i \in 1..Len(xs) : \A j \in (i + 1)..Len(xs) : xs[i] # xs[j]

\* C23: in the field map, the value list of every label of a schema of left
\* or single orientation holds no value twice, whether the tables handled
\* so far repeat a placeholder text within one table or in several tables of
\* the same schema.
C23_NoDuplicateValues ==
  \A schema \in DOMAIN red_out :
    SchemaNamed(schema).orientation \in {"left", "single"}
      => \A lbl \in DOMAIN red_out[schema] : NoDuplicates(red_out[schema][lbl])

\* the data extract_table_data returns for one table holds no value twice
\* under a label of a schema of left or single orientation
NoDuplicateWithinTable ==
  \A k \in 1..Len(matched) :
    \A schema \in DOMAIN StepOf(red_doc[k]).data :
      SchemaNamed(schema).orientation \in {"left", "single"}
        => \A lbl \in DOMAIN StepOf(red_doc[k]).data[schema] :
             NoDuplicates(StepOf(red_doc[k]).data[schema][lbl])

\* the tables handled so far that were given to a row1 schema
RowOneTables ==
  {k \in 1..Len(matched) :
     ~matched[k].multi /\ matched[k].schema # <<>>
       /\ SchemaNamed(matched[k].schema).orientation = "row1"}

\* C24: for every table extracted as a row1 schema, the placeholder text of
\* each cell of a data row is in the field map of the schema, under one of
\* the labels of the schema or under the key UNMAPPED::<header> of the
\* column of the cell.
C24_NoPlaceholderDropped ==
  \A k \in RowOneTables :
    \A r \in 2..Len(red_doc[k].rows) :
      \A c \in 1..Len(red_doc[k].rows[r]) :
        \E text \in {CellRedText(red_doc[k].rows[r][c])},
           schema \in {matched[k].schema} :
          text # <<>> =>
            /\ schema \in DOMAIN red_out
            /\ \E lbl \in DOMAIN red_out[schema] :
                 /\ \/ lbl \in Range(SchemaNamed(schema).labels)
                    \/ lbl = UnmappedKey(red_doc[k].rows[1], c)
                 /\ text \in Range(red_out[schema][lbl])

\* C14: when extract_red_text is done, no red text of a table that scores
\* below 20 against every schema is in the field map (the low-scoring tables
\* of the documents share no text with the other tables).
C14_LowScoringContributesNothing ==
  red_pc = "done"
    => \A k \in 1..Len(red_doc) :
         LowScoring(red_doc[k]) => RedTextsOf(red_doc[k]) \cap OutTexts = {}

\* ========================================================================
\* Orchestrator  (app.py)
\* ========================================================================
MaxRequests == 2

StageOrder == <<"pdf", "docx", "merge", "write">>

\* The repository holds two scripts named update_docx_with_pdf.py and two
\* named updated_word.py; process_files runs whichever sits in SCRIPT_DIR.
MergeScripts == {"openai", "nhvas"}
WriteScripts == {"legacy", "cli"}

\* What one run of a stage's script does, given the files in the working
\* directory; fault says whether the stage's work raises, killed whether the
\* child is ended by a signal.  Result: return code, files written, and
\* whether an exception was hit inside the script.
StageOutcome(stage, dep, fs, fault, killed) ==
  IF killed THEN [rc |-> -9, writes |-> {}, exc |-> FALSE]
  ELSE CASE stage = "pdf" ->
              \* extract_pdf_data.py main: nothing is caught
              IF fault THEN [rc |-> 1, writes |-> {}, exc |-> TRUE]
              ELSE [rc |-> 0, writes |-> {"input_comprehensive_data.json"}, exc |-> FALSE]
         [] stage = "docx" ->
              \* extract_red_text.py __main__: nothing is caught
              IF fault THEN [rc |-> 1, writes |-> {}, exc |-> TRUE]
              ELSE [rc |-> 0, writes |-> {"word_data.json"}, exc |-> FALSE]
         [] stage = "merge" /\ dep.merge = "openai" ->
              \* src/update_docx_with_pdf.py line 6 reads os.environ with os
              \* never imported: NameError on every run
              [rc |-> 1, writes |-> {}, exc |-> TRUE]
         [] stage = "merge" /\ dep.merge = "nhvas" ->
              \* NHVASMerger.process_files re-raises; main checks the inputs
              IF ~({"word_data.json", "input_comprehensive_data.json"} \subseteq fs)
              THEN [rc |-> 1, writes |-> {}, exc |-> FALSE]
              ELSE IF fault THEN [rc |-> 1, writes |-> {}, exc |-> TRUE]
              ELSE [rc |-> 0, writes |-> {"updated_word_data.json"}, exc |-> FALSE]
         [] stage = "write" /\ dep.write = "legacy" ->
              \* src/updated_word.py main: fixed file names, every exception
              \* caught and printed, so the process ends with code 0
              IF fault \/ ~({"updated_word_data.json", "test.docx"} \subseteq fs)
              THEN [rc |-> 0, writes |-> {}, exc |-> TRUE]
              ELSE [rc |-> 0, writes |-> {"updated_reportv1.docx"}, exc |-> FALSE]
         [] stage = "write" /\ dep.write = "cli" ->
              \* space-pdf/updated_word.py: run() saves last, nothing caught
              IF fault THEN [rc |-> 1, writes |-> {}, exc |-> TRUE]
              ELSE [rc |-> 0, writes |-> {"updated.docx"}, exc |-> FALSE]

\* run_cmd raises CalledProcessError exactly when the return code is not 0
run_cmd_ignores(rc) == FALSE
run_cmd_raises(rc) == rc # 0

\* _locate_pdf_json finds the extractor's JSON among the candidates / the glob
_locate_pdf_json(fs) ==
  \E f \in fs : f \in {"pdf_data.json", "input_comprehensive_data.json",
                       "comprehensive_data.json", "output.json"}

NextPc(stage) ==
  CASE stage = "pdf" -> "locate"
    [] stage = "docx" -> "merge"
    [] stage = "merge" -> "write"
    [] stage = "write" -> "return"

PipeInit ==
  /\ deploy \in [merge : MergeScripts, write : WriteScripts]
  /\ ppc = "pdf"
  /\ running = "none"
  /\ started = <<>>
  /\ exits = <<>>
  /\ raised_in = {}
  /\ files = {"input.pdf", "input.docx"}
  /\ returned = FALSE
  /\ requests = 1
  /\ ExtIdle /\ WrIdle /\ MgIdle /\ RtIdle

\* run_cmd, first half: the child process of the stage at ppc is started
StartStage ==
  /\ ppc \in {"pdf", "docx", "merge", "write"}
  /\ running = "none"
  /\ running' = ppc
  /\ started' = Append(started, ppc)
  /\ UNCHANGED <<deploy, ppc, exits, raised_in, files, returned, requests>> /\ PipeFrame

\* run_cmd, second half: the child exits; a non-zero code raises out of
\* process_files
ExitStage ==
  /\ running # "none"
  /\ \E fault \in BOOLEAN, killed \in BOOLEAN :
       LET o == StageOutcome(running, deploy, files, fault, killed)
       IN /\ exits' = Append(exits, o.rc)
          /\ files' = files \cup o.writes
          /\ raised_in' = IF o.exc THEN raised_in \cup {running} ELSE raised_in
          /\ ppc' = IF run_cmd_raises(o.rc) THEN "raised" ELSE NextPc(running)
  /\ running' = "none"
  /\ UNCHANGED <<deploy, started, returned, requests>> /\ PipeFrame

\* pdf_json_path = _locate_pdf_json(temp_dir)
LocatePdfJson ==
  /\ ppc = "locate"
  /\ ppc' = IF _locate_pdf_json(files) THEN "docx" ELSE "raised"
  /\ UNCHANGED <<deploy, running, started, exits, raised_in, files, returned, requests>> /\ PipeFrame

\* return final_docx_path
ReturnPath ==
  /\ ppc = "return"
  /\ returned' = TRUE
  /\ ppc' = "done"
  /\ UNCHANGED <<deploy, running, started, exits, raised_in, files, requests>> /\ PipeFrame

\* the next upload: process_files is called again, with a fresh directory
NextRequest ==
  /\ ppc \in {"done", "raised"}
  /\ requests < MaxRequests
  /\ requests' = requests + 1
  /\ ppc' = "pdf"
  /\ running' = "none"
  /\ started' = <<>>
  /\ exits' = <<>>
  /\ raised_in' = {}
  /\ files' = {"input.pdf", "input.docx"}
  /\ returned' = FALSE
  /\ UNCHANGED <<deploy>> /\ PipeFrame

PipeNext == StartStage \/ ExitStage \/ LocatePdfJson \/ ReturnPath \/ NextRequest

SpecPipeline == PipeInit /\ [][PipeNext]_vars

\* ------------------------------------------------------------------------
\* C4: the stages start in the order PDF-extract, DOCX-extract, merge, write;
\* a stage starts only after every earlier stage exited with code 0; after a
\* non-zero exit no later stage is started and no output path is returned.
\* ------------------------------------------------------------------------
C4_StageOrder ==
  /\ Len(started) <= Len(StageOrder)
  /\ \A i \in 1..Len(started) : started[i] = StageOrder[i]
  /\ \A i \in 1..Len(started) :
       \A j \in 1..(i - 1) : j <= Len(exits) /\ exits[j] = 0
  /\ \A j \in 1..Len(exits) :
       exits[j] # 0 => (Len(started) = j /\ ~returned)
  /\ returned => (Len(exits) = Len(StageOrder) /\ \A j \in 1..Len(exits) : exits[j] = 0)

\* the merge stage has exited non-zero after two successful stages, and
\* process_files has raised
C4_Witness ==
  /\ Len(exits) = 3 /\ exits[1] = 0 /\ exits[2] = 0 /\ exits[3] # 0
  /\ ppc = "raised"

\* ------------------------------------------------------------------------
\* C5: a merge or write stage that hits an exception reports failure to its
\* caller (non-zero exit) and writes no output, so process_files never
\* returns an output path after a failed merge or write.
\* ------------------------------------------------------------------------
C5_FailedStageReported ==
  \A i \in 1..Len(exits) :
    (started[i] \in {"merge", "write"} /\ started[i] \in raised_in)
      => (exits[i] # 0 /\ ~returned)

====
